---------------------------- MODULE Spec2Model ----------------------------
(***************************************************************************)
(* StockIQ: the four-stage upload pipeline (intent validation, data        *)
(* sufficiency, structure inference, decision engine).                     *)
(*                                                                         *)
(* A table (pandas DataFrame) is a record                                  *)
(*    [columns : Seq(label), nrows : Nat, cells : Seq(Seq(cell))]          *)
(* with cells[c][r] the cell of column c in row r.  A cell is a record     *)
(* [k, n, s]: k is its kind ("null", "num", "text", "date"), n its number  *)
(* (the value of a number, the day code year*100+day of a date string),    *)
(* s its string (of a text cell).  Date cells are ISO date strings, as in  *)
(* the repository's tests: pd.to_numeric coerces them to NaN.              *)
(*                                                                         *)
(* Labels and words are tokens of a fixed universe; a regular expression   *)
(* list of the source is the set of the universe's tokens that one of its  *)
(* patterns matches under re.search (with "_" a word character, so that    *)
(* \bdate\b does not match "expiry_date" and \bsold\b does not match       *)
(* "units_sold").  No token of the universe is one half of a two-word      *)
(* pattern, so matching a text is matching one of its tokens.              *)
(***************************************************************************)
EXTENDS Integers, Sequences, FiniteSets, TLC

VARIABLES
    uploaded_file,   \* the uploaded file: name, content kind, table or text
    PDF_SUPPORT,     \* file_validator.PDF_SUPPORT: pdfplumber was importable
    pc,              \* position of the running handler
    stage1_result,   \* validate_uploaded_file(uploaded_file)
    path_result,     \* validate_file(path of the same file)
    df,              \* the frame handed to stage 2 and stage 3 (NoFrame = None)
    stage2_result,   \* check_sufficiency(df)
    stage3_result,   \* run_stage3_analysis(df)
    role_mapping,    \* run_stage3_analysis: role -> column label
    temp_dir,        \* run_stage3_analysis: scratch directory state
    sales_df,        \* the staged sales table (sales.csv)
    products_df,     \* the staged product snapshot table (products.csv)
    loop,            \* run_stage3_analysis: the per-product loop
    engine,          \* a call of make_decision: its arguments and its result
    calls,           \* history: the stage entry points invoked so far, in order
    edit             \* history: the last edit made to the quantity column

vars == <<uploaded_file, PDF_SUPPORT, pc, stage1_result, path_result, df,
          stage2_result, stage3_result, role_mapping, temp_dir, sales_df,
          products_df, loop, engine, calls, edit>>

(***************************************************************************)
(* Bounds of the explored inputs.                                          *)
(***************************************************************************)
MaxCols == 4
MaxRows == 4
MaxTextLen == 3
MaxGateRows == 3
MaxSalesRows == 2
MaxRoleCols == 3
MaxLead == 3
MaxStock == 6
MaxDemand == 6
MaxExcess == 1
MaxMinOrder == 2
MaxBatch == 11
MaxLoopRows == 4
MaxInFlight == 2
MaxScanRows == 4
MaxShareRows == 10
MaxSnapRows == 3
MaxHistory == 4
MaxExpiry == 3

(***************************************************************************)
(* Sequence helpers.                                                       *)
(***************************************************************************)
Range(s) == {s[i] : i \in DOMAIN s}

RECURSIVE SelectIdx(_, _, _)
\* the indices i in 1..n, in order, for which keep[i]
SelectIdx(keep, i, n) ==
    IF i > n THEN <<>>
    ELSE IF keep[i] THEN <<i>> \o SelectIdx(keep, i + 1, n)
    ELSE SelectIdx(keep, i + 1, n)

Head5(s, k) == IF Len(s) <= k THEN s ELSE SubSeq(s, 1, k)

RECURSIVE Flatten(_)
Flatten(ss) == IF ss = <<>> THEN <<>> ELSE Head(ss) \o Flatten(Tail(ss))

(***************************************************************************)
(* Cells and frames.                                                       *)
(***************************************************************************)
Null == [k |-> "null", n |-> 0, s |-> ""]
Num(x) == [k |-> "num", n |-> x, s |-> ""]
Text(w) == [k |-> "text", n |-> 0, s |-> w]
Date(d) == [k |-> "date", n |-> d, s |-> ""]

NoFrame == [columns |-> <<>>, nrows |-> 0 - 1, cells |-> <<>>]

Frame(cols, n, cs) == [columns |-> cols, nrows |-> n, cells |-> cs]

\* DataFrame.empty: some axis has length 0
IsEmptyFrame(d) == Len(d.columns) = 0 \/ d.nrows = 0

\* Series.dropna(): the non-null cells, in order
DropNa(col) ==
    LET keep == [i \in 1..Len(col) |-> col[i].k # "null"]
        idx == SelectIdx(keep, 1, Len(col))
    IN  [j \in 1..Len(idx) |-> col[idx[j]]]

\* str(v).lower() of a sampled cell
CellToken(c) ==
    CASE c.k = "text" -> c.s
      [] c.k = "num" -> ToString(c.n)
      [] c.k = "date" -> ToString(c.n)
      [] OTHER -> "nan"

\* pd.to_numeric(errors='coerce') of one cell: a number, or NaN
IsNumeric(c) == c.k = "num"

\* pd.to_numeric(col, errors='coerce').dropna()
NumericValues(col) ==
    LET keep == [i \in 1..Len(col) |-> IsNumeric(col[i])]
        idx == SelectIdx(keep, 1, Len(col))
    IN  [j \in 1..Len(idx) |-> col[idx[j]].n]

\* pd.to_datetime(col, errors='coerce') of one cell of col: a date string
\* parses to its day; a number is taken as nanoseconds since the epoch
\* (1970); text and null are NaT.  (Columns mixing numbers and date strings
\* are not among the inputs.)
IsDatetime(c) == c.k = "date" \/ c.k = "num"
DatetimeKey(c) == c.n
DatetimeYear(c) == IF c.k = "date" THEN c.n \div 100 ELSE 1970

\* pd.api.types.is_numeric_dtype(df[col]): a column read with only numbers
\* and blanks is a numeric column, any string makes it an object column
IsNumericDtype(col) == \A i \in 1..Len(col) : col[i].k \in {"num", "null"}

(***************************************************************************)
(* Stage 1: ai/file_validator.py                                           *)
(***************************************************************************)
SignalGroups == <<"quantity", "time", "product">>

\* str(col).lower(): the universe is lower case but for the label "SKU"
Lower(t) == IF t = "SKU" THEN "sku" ELSE t

SIGNAL_PATTERNS ==
    [quantity |-> {"quantity", "qty", "sales", "sold", "stock", "date sold",
                   "item sold"},
     time     |-> {"date", "year", "expiry_date", "sale_date", "invoice_date",
                   "date sold"},
     product  |-> {"product_id", "product_name", "sku", "item", "product",
                   "item sold"}]

REJECTION_PATTERNS == {"employee", "hr", "salary", "hire_date", "payroll"}

SUPPORTED_EXTENSIONS == {".xlsx", ".xls", ".pdf"}

MsgNoFile == "No file uploaded."
MsgNotFound == "File not found. Please select a valid file."
MsgUnsupported == "Unsupported file format. Please upload an Excel or PDF file containing inventory or sales data."
MsgEmptyFile == "The file appears to be empty. Please upload a file with data."
MsgNoPdfSupport == "PDF support is not available. Please install pdfplumber: pip install pdfplumber"
MsgEmptyPdf == "The PDF file appears to be empty or contains only images."
MsgUnreadable == "Unable to read the file. Please ensure it is not corrupted or password-protected."
MsgUnreadableExcel == "Unable to read the Excel file. Please ensure it is not corrupted or password-protected."
MsgUnreadablePdf == "Unable to read the PDF file. Please ensure it is not corrupted or password-protected."
MsgWrongDomain == "This document does not appear to be related to inventory or sales data."
MsgNoNumeric == "No numeric quantity or sales data found. Please upload a file containing inventory or sales figures."
MsgNoQuantityNoTime == "This document does not appear to be related to inventory or sales data. No quantity or time information found."
MsgNoQuantity == "This file does not contain quantity or sales information. Please upload an inventory or sales file."
MsgNoTime == "No date or time reference found to analyze inventory trends."
MsgNoProduct == "No product identifiers found. Please ensure the file contains product or item information."

NoResult == [status |-> "none", reason |-> "", file_type |-> "",
             confidence |-> "", explanation |-> ""]
Invalid(reason) == [status |-> "invalid", reason |-> reason, file_type |-> "",
                    confidence |-> "", explanation |-> ""]
Valid(file_type, confidence, explanation) ==
    [status |-> "valid", reason |-> "", file_type |-> file_type,
     confidence |-> confidence, explanation |-> explanation]

\* [str(col).lower() for col in df.columns]
ColumnsLower(d) == [i \in 1..Len(d.columns) |-> Lower(d.columns[i])]

\* the first 5 non-null values of every column, as lower-case strings
SampleValues(d) ==
    Flatten([i \in 1..Len(d.columns) |->
        LET sample == Head5(DropNa(d.cells[i]), 5)
        IN  [j \in 1..Len(sample) |-> CellToken(sample[j])]])

\* " ".join(columns + sample_values), as its sequence of tokens
TextContent(d) == ColumnsLower(d) \o SampleValues(d)

detect_rejection_signals(text_content, columns) ==
    \E t \in Range(text_content \o columns) : t \in REJECTION_PATTERNS

detect_signals(text_content, columns) ==
    [g \in Range(SignalGroups) |->
        \E t \in Range(text_content \o columns) : t \in SIGNAL_PATTERNS[g]]

signal_count(signals) == Cardinality({g \in DOMAIN signals : signals[g]})

\* len(re.findall(r'\b\d+(?:\.\d+)?\b', token))
NumberCount(t) ==
    CASE t \in {"7", "12.5"} -> 1
      [] t = "2024-01-01" -> 3
      [] OTHER -> 0

RECURSIVE SumNumberCount(_)
SumNumberCount(text) ==
    IF text = <<>> THEN 0 ELSE NumberCount(Head(text)) + SumNumberCount(Tail(text))

\* the labels of the columns i of d, in column order, for which keep[i]
ColumnsWhere(d, keep) ==
    LET idx == SelectIdx(keep, 1, Len(d.columns))
    IN  [j \in 1..Len(idx) |-> d.columns[idx[j]]]

\* variant: a column with exactly 30% numeric values counts as well
verify_numeric_data_at_least_share(d, text_content, columns) ==
    IF d # NoFrame
    THEN LET quantity_cols ==
                 ColumnsWhere(d, [i \in 1..Len(d.columns) |->
                     /\ Lower(d.columns[i]) \in SIGNAL_PATTERNS["quantity"]
                     /\ Len(NumericValues(d.cells[i])) > 0])
             any_cols ==
                 ColumnsWhere(d, [i \in 1..Len(d.columns) |->
                     10 * Len(NumericValues(d.cells[i])) >= 3 * d.nrows])
         IN  IF quantity_cols # <<>>
             THEN [has_numeric |-> TRUE, numeric_columns |-> quantity_cols]
             ELSE [has_numeric |-> any_cols # <<>>, numeric_columns |-> any_cols]
    ELSE [has_numeric |-> SumNumberCount(text_content) >= 3,
          numeric_columns |-> <<>>]

\* variant: only quantity-labelled columns count as numeric evidence
verify_numeric_data_quantity_only(d, text_content, columns) ==
    IF d # NoFrame
    THEN LET quantity_cols ==
                 ColumnsWhere(d, [i \in 1..Len(d.columns) |->
                     /\ Lower(d.columns[i]) \in SIGNAL_PATTERNS["quantity"]
                     /\ Len(NumericValues(d.cells[i])) > 0])
         IN  [has_numeric |-> quantity_cols # <<>>, numeric_columns |-> quantity_cols]
    ELSE [has_numeric |-> SumNumberCount(text_content) >= 3,
          numeric_columns |-> <<>>]

verify_numeric_data(d, text_content, columns) ==
    IF d # NoFrame
    THEN LET quantity_cols ==
                 ColumnsWhere(d, [i \in 1..Len(d.columns) |->
                     /\ Lower(d.columns[i]) \in SIGNAL_PATTERNS["quantity"]
                     /\ Len(NumericValues(d.cells[i])) > 0])
             any_cols ==
                 ColumnsWhere(d, [i \in 1..Len(d.columns) |->
                     10 * Len(NumericValues(d.cells[i])) > 3 * d.nrows])
         IN  IF quantity_cols # <<>>
             THEN [has_numeric |-> TRUE, numeric_columns |-> quantity_cols]
             ELSE [has_numeric |-> any_cols # <<>>, numeric_columns |-> any_cols]
    ELSE [has_numeric |-> SumNumberCount(text_content) >= 3,
          numeric_columns |-> <<>>]

\* variant: one tier for every accepted file
calculate_confidence_flat(signals, numeric_result) ==
    IF signal_count(signals) >= 2 /\ numeric_result.has_numeric
    THEN "medium"
    ELSE "low"

calculate_confidence(signals, numeric_result) ==
    LET numeric_col_count == Len(numeric_result.numeric_columns)
    IN  IF signal_count(signals) = 3 /\ numeric_result.has_numeric
           /\ numeric_col_count >= 1
        THEN "high"
        ELSE IF signal_count(signals) >= 2 /\ numeric_result.has_numeric
        THEN "medium"
        ELSE "low"

group_names ==
    [quantity |-> "quantity/stock information",
     time     |-> "time/date references",
     product  |-> "product identifiers"]

generate_explanation(signals, file_type) ==
    LET keep == [i \in 1..3 |-> signals[SignalGroups[i]]]
        idx == SelectIdx(keep, 1, 3)
        detected_names == [j \in 1..Len(idx) |-> group_names[SignalGroups[idx[j]]]]
    IN  IF Len(detected_names) = 3
        THEN "File contains " \o detected_names[1] \o ", " \o detected_names[2]
             \o ", and " \o detected_names[3] \o " suitable for inventory analysis."
        ELSE IF Len(detected_names) = 2
        THEN "File contains " \o detected_names[1] \o " and " \o detected_names[2]
             \o " suitable for inventory analysis."
        ELSE "File appears to contain inventory or sales related data."

generate_rejection_reason(signals, has_numeric) ==
    LET missing == {g \in DOMAIN signals : ~signals[g]}
    IN  IF ~has_numeric THEN MsgNoNumeric
        ELSE IF "quantity" \in missing /\ "time" \in missing THEN MsgNoQuantityNoTime
        ELSE IF "quantity" \in missing THEN MsgNoQuantity
        ELSE IF "time" \in missing THEN MsgNoTime
        ELSE IF "product" \in missing THEN MsgNoProduct
        ELSE MsgWrongDomain

\* variant: numeric evidence examined before the signal gate
validate_file_checks_numeric_first(text_content, columns, d, file_type) ==
    IF detect_rejection_signals(text_content, columns)
    THEN Invalid(MsgWrongDomain)
    ELSE LET signals == detect_signals(text_content, columns)
             numeric_result == verify_numeric_data(d, text_content, columns)
         IN  IF ~numeric_result.has_numeric
             THEN Invalid(generate_rejection_reason(signals, FALSE))
             ELSE IF signal_count(signals) < 2
             THEN Invalid(generate_rejection_reason(signals, TRUE))
             ELSE Valid(file_type,
                        calculate_confidence(signals, numeric_result),
                        generate_explanation(signals, file_type))

\* variant: acceptance signals examined before the disqualifying patterns
validate_uploaded_file_checks_signals_first(text_content, columns, d, file_type) ==
    LET signals == detect_signals(text_content, columns)
        numeric_result == verify_numeric_data(d, text_content, columns)
    IN  IF signal_count(signals) >= 2 /\ numeric_result.has_numeric
        THEN Valid(file_type,
                   calculate_confidence(signals, numeric_result),
                   generate_explanation(signals, file_type))
        ELSE IF detect_rejection_signals(text_content, columns)
        THEN Invalid(MsgWrongDomain)
        ELSE IF signal_count(signals) < 2
        THEN Invalid(generate_rejection_reason(signals, TRUE))
        ELSE Invalid(generate_rejection_reason(signals, FALSE))

\* validate_file, lines 319-359: the checks on the extracted content
validate_file_checks(text_content, columns, d, file_type) ==
    IF detect_rejection_signals(text_content, columns)
    THEN Invalid(MsgWrongDomain)
    ELSE LET signals == detect_signals(text_content, columns)
             has_product_and_quantity == signals["product"] /\ signals["quantity"]
             numeric_result == verify_numeric_data(d, text_content, columns)
         IN  IF signal_count(signals) < 2 /\ ~has_product_and_quantity
             THEN Invalid(generate_rejection_reason(signals, TRUE))
             ELSE IF ~numeric_result.has_numeric
             THEN Invalid(generate_rejection_reason(signals, FALSE))
             ELSE Valid(file_type,
                        calculate_confidence(signals, numeric_result),
                        generate_explanation(signals, file_type))

\* validate_uploaded_file, lines 437-477: the same checks, written again
validate_uploaded_file_checks(text_content, columns, d, file_type) ==
    IF detect_rejection_signals(text_content, columns)
    THEN Invalid(MsgWrongDomain)
    ELSE LET signals == detect_signals(text_content, columns)
             has_product_and_quantity == signals["product"] /\ signals["quantity"]
             numeric_result == verify_numeric_data(d, text_content, columns)
         IN  IF signal_count(signals) < 2 /\ ~has_product_and_quantity
             THEN Invalid(generate_rejection_reason(signals, TRUE))
             ELSE IF ~numeric_result.has_numeric
             THEN Invalid(generate_rejection_reason(signals, FALSE))
             ELSE Valid(file_type,
                        calculate_confidence(signals, numeric_result),
                        generate_explanation(signals, file_type))

\* A file: its name's extension, whether the path exists, what its bytes
\* hold ("table": a workbook with one sheet, "text": a PDF with extractable
\* page text, "corrupt": neither), and the sheet or the lower-cased text.
NoFile == [ext |-> "", exists |-> FALSE, content |-> "none",
           table |-> NoFrame, text |-> <<>>]

FileType(ext) == IF ext = ".pdf" THEN "pdf" ELSE "excel"

\* variant: the upload entry point without the empty-sheet return
validate_uploaded_file_no_empty_return(f, pdf_support) ==
    IF f = NoFile THEN Invalid(MsgNoFile)
    ELSE IF f.ext \notin SUPPORTED_EXTENSIONS THEN Invalid(MsgUnsupported)
    ELSE IF FileType(f.ext) = "excel"
    THEN IF f.content # "table" THEN Invalid(MsgUnreadable)
         ELSE validate_uploaded_file_checks(TextContent(f.table), ColumnsLower(f.table),
                               f.table, "excel")
    ELSE IF ~pdf_support THEN Invalid(MsgNoPdfSupport)
         ELSE IF f.content # "text" THEN Invalid(MsgUnreadable)
         ELSE IF f.text = <<>> THEN Invalid(MsgEmptyPdf)
         ELSE validate_uploaded_file_checks(f.text, <<>>, NoFrame, "pdf")

validate_uploaded_file(f, pdf_support) ==
    IF f = NoFile THEN Invalid(MsgNoFile)
    ELSE IF f.ext \notin SUPPORTED_EXTENSIONS THEN Invalid(MsgUnsupported)
    ELSE IF FileType(f.ext) = "excel"
    THEN IF f.content # "table" THEN Invalid(MsgUnreadable)
         ELSE IF IsEmptyFrame(f.table) THEN Invalid(MsgEmptyFile)
         ELSE validate_uploaded_file_checks(TextContent(f.table), ColumnsLower(f.table),
                               f.table, "excel")
    ELSE IF ~pdf_support THEN Invalid(MsgNoPdfSupport)
         ELSE IF f.content # "text" THEN Invalid(MsgUnreadable)
         ELSE IF f.text = <<>> THEN Invalid(MsgEmptyPdf)
         ELSE validate_uploaded_file_checks(f.text, <<>>, NoFrame, "pdf")

validate_file(f, pdf_support) ==
    IF ~f.exists THEN Invalid(MsgNotFound)
    ELSE IF f.ext \notin SUPPORTED_EXTENSIONS THEN Invalid(MsgUnsupported)
    ELSE IF FileType(f.ext) = "excel"
    THEN IF f.content # "table" THEN Invalid(MsgUnreadableExcel)
         ELSE IF IsEmptyFrame(f.table) THEN Invalid(MsgEmptyFile)
         ELSE validate_file_checks(TextContent(f.table), ColumnsLower(f.table),
                               f.table, "excel")
    ELSE IF ~pdf_support THEN Invalid(MsgNoPdfSupport)
         ELSE IF f.content # "text" THEN Invalid(MsgUnreadablePdf)
         ELSE IF f.text = <<>> THEN Invalid(MsgEmptyPdf)
         ELSE validate_file_checks(f.text, <<>>, NoFrame, "pdf")

(***************************************************************************)
(* Stage 2: ai/data_sufficiency.py                                         *)
(***************************************************************************)
PRODUCT_PATTERNS ==
    {"product_id", "product_name", "sku", "item", "code", "description", "product",
     "item sold"}
QUANTITY_PATTERNS ==
    {"quantity", "qty", "sales", "sold", "stock", "date sold", "item sold"}
PRICE_PATTERNS == {"price", "total"}
TIME_PATTERNS ==
    {"date", "year", "expiry_date", "sale_date", "invoice_date", "date sold"}

MsgNoData == "The file contains no data to analyze."
MsgNoRows == "The file contains no data rows."
MsgSingleRecord == "The file contains only a single record. Multiple records are needed for meaningful analysis."
MsgNoProductColumn == "No product identifier column found. The file must contain a way to distinguish products (e.g., product ID, SKU, item name)."
MsgProductNoValues == "Product identifier column exists but contains no usable values."
MsgQuantityNoData == "Quantity columns exist but contain no meaningful numeric data. All values are either missing or zero."
MsgPriceOnly == "This file contains price or revenue data but no inventory quantity information."
MsgNoQuantityInfo == "No quantity or inventory count information found. Please upload a file with stock levels or units sold."
MsgNoTimeInfo == "No date or time information found. The file must contain time-based data to analyze trends."
MsgSingleDate == "Time column exists but contains only a single date or period. At least two distinct time points are needed for trend analysis."
MsgNegative == "Quantity data contains too many negative values, which may indicate incorrect data formatting."
MsgDateRange == "Date values appear to be outside a reasonable range (1900-2100)."
MsgSufficient == "Data contains product identifiers, quantity information, and time context suitable for inventory analysis."

NoResult2 == [status |-> "none", reason |-> "", explanation |-> ""]
Insufficient(reason) == [status |-> "insufficient", reason |-> reason, explanation |-> ""]
Sufficient == [status |-> "sufficient", reason |-> "", explanation |-> MsgSufficient]

\* the columns (by position, in column order) whose lower-cased label matches
find_matching_columns(d, patterns) ==
    SelectIdx([i \in 1..Len(d.columns) |-> Lower(d.columns[i]) \in patterns],
              1, Len(d.columns))

check_product_identifiers(d) ==
    LET matching_cols == find_matching_columns(d, PRODUCT_PATTERNS)
    IN  IF matching_cols = <<>>
        THEN [passed |-> FALSE, message |-> MsgNoProductColumn, cols |-> <<>>]
        ELSE IF \E j \in 1..Len(matching_cols) :
                    Len(DropNa(d.cells[matching_cols[j]])) > 0
        THEN [passed |-> TRUE, message |-> "", cols |-> matching_cols]
        ELSE [passed |-> FALSE, message |-> MsgProductNoValues, cols |-> matching_cols]

\* variant: a quantity-pattern column is usable when it has a numeric value
UsableQuantity_any_number(col) == Len(NumericValues(col)) # 0

\* a quantity-pattern column is usable when it has a numeric value and its
\* numeric values are not all zero
UsableQuantity(col) ==
    LET valid_values == NumericValues(col)
    IN  /\ Len(valid_values) # 0
        /\ ~(\A j \in 1..Len(valid_values) : valid_values[j] = 0)

\* variant: the fallback scan without the 30% threshold
FallbackQuantity_any_share(d, col) ==
    LET valid_count == NumericValues(col)
    IN  Cardinality({j \in 1..Len(valid_count) : valid_count[j] # 0}) > 0

\* the fallback scan: more than 30% of the rows numeric, one of them non-zero
FallbackQuantity(d, col) ==
    LET valid_count == NumericValues(col)
    IN  /\ 10 * Len(valid_count) > 3 * d.nrows
        /\ Cardinality({j \in 1..Len(valid_count) : valid_count[j] # 0}) > 0

check_quantity_meaning(d) ==
    LET quantity_cols == find_matching_columns(d, QUANTITY_PATTERNS)
        price_cols == find_matching_columns(d, PRICE_PATTERNS)
        usable_quantity_cols ==
            SelectIdx([i \in 1..Len(d.columns) |->
                          /\ i \in Range(quantity_cols)
                          /\ UsableQuantity(d.cells[i])], 1, Len(d.columns))
        fallback_cols ==
            SelectIdx([i \in 1..Len(d.columns) |->
                          /\ i \notin Range(price_cols)
                          /\ FallbackQuantity(d, d.cells[i])], 1, Len(d.columns))
    IN  IF usable_quantity_cols # <<>>
        THEN [passed |-> TRUE, message |-> "", cols |-> usable_quantity_cols]
        ELSE IF quantity_cols # <<>>
        THEN [passed |-> FALSE, message |-> MsgQuantityNoData, cols |-> <<>>]
        ELSE IF fallback_cols # <<>>
        THEN [passed |-> TRUE, message |-> "", cols |-> fallback_cols]
        ELSE IF price_cols # <<>> /\ quantity_cols = <<>>
        THEN [passed |-> FALSE, message |-> MsgPriceOnly, cols |-> <<>>]
        ELSE [passed |-> FALSE, message |-> MsgNoQuantityInfo, cols |-> <<>>]

\* df[col].dropna().nunique() of a numeric column, and
\* pd.to_datetime(df[col], errors='coerce').dropna().nunique() of another
UniqueTimeValues(col) ==
    IF IsNumericDtype(col)
    THEN Cardinality({col[i].n : i \in {r \in 1..Len(col) : col[r].k = "num"}})
    ELSE Cardinality({DatetimeKey(col[i]) : i \in {r \in 1..Len(col) : IsDatetime(col[r])}})

check_time_context(d) ==
    LET time_cols == find_matching_columns(d, TIME_PATTERNS)
    IN  IF time_cols = <<>>
        THEN [passed |-> FALSE, message |-> MsgNoTimeInfo, cols |-> <<>>]
        ELSE IF \E j \in 1..Len(time_cols) :
                    UniqueTimeValues(d.cells[time_cols[j]]) >= 2
        THEN [passed |-> TRUE, message |-> "", cols |-> time_cols]
        ELSE [passed |-> FALSE, message |-> MsgSingleDate, cols |-> time_cols]

check_data_volume(d) ==
    IF d.nrows = 0 THEN [passed |-> FALSE, message |-> MsgNoRows]
    ELSE IF d.nrows = 1 THEN [passed |-> FALSE, message |-> MsgSingleRecord]
    ELSE [passed |-> TRUE, message |-> ""]

\* variant: every non-zero value counted
NegativeCount_nonzero(col) ==
    Cardinality({i \in 1..Len(col) : IsNumeric(col[i]) /\ col[i].n # 0})

NegativeCount(col) ==
    Cardinality({i \in 1..Len(col) : IsNumeric(col[i]) /\ col[i].n < 0})

\* the parsed dates of the column are not all within 1900..2100
DatesOutOfRange(col) ==
    LET valid_dates == {i \in 1..Len(col) : IsDatetime(col[i])}
    IN  /\ valid_dates # {}
        /\ \/ \E i \in valid_dates : DatetimeYear(col[i]) < 1900
           \/ \E i \in valid_dates : DatetimeYear(col[i]) > 2100

\* variant: half of the rows negative is already too many
check_logical_consistency_half(d, quantity_cols) ==
    LET time_cols == find_matching_columns(d, TIME_PATTERNS)
    IN  IF \E j \in 1..Len(quantity_cols) :
               2 * NegativeCount(d.cells[quantity_cols[j]]) >= d.nrows
        THEN [passed |-> FALSE, message |-> MsgNegative]
        ELSE IF \E j \in 1..Len(time_cols) : DatesOutOfRange(d.cells[time_cols[j]])
        THEN [passed |-> FALSE, message |-> MsgDateRange]
        ELSE [passed |-> TRUE, message |-> ""]

check_logical_consistency(d, quantity_cols) ==
    LET time_cols == find_matching_columns(d, TIME_PATTERNS)
    IN  IF \E j \in 1..Len(quantity_cols) :
               2 * NegativeCount(d.cells[quantity_cols[j]]) > d.nrows
        THEN [passed |-> FALSE, message |-> MsgNegative]
        ELSE IF \E j \in 1..Len(time_cols) : DatesOutOfRange(d.cells[time_cols[j]])
        THEN [passed |-> FALSE, message |-> MsgDateRange]
        ELSE [passed |-> TRUE, message |-> ""]

\* variant: the time check made before the product check
check_sufficiency_time_first(d) ==
    IF d = NoFrame \/ IsEmptyFrame(d) THEN Insufficient(MsgNoData)
    ELSE LET volume == check_data_volume(d)
             product == check_product_identifiers(d)
             quantity == check_quantity_meaning(d)
             time == check_time_context(d)
             logical == check_logical_consistency(d, quantity.cols)
         IN  IF ~volume.passed THEN Insufficient(volume.message)
             ELSE IF ~time.passed THEN Insufficient(time.message)
             ELSE IF ~product.passed THEN Insufficient(product.message)
             ELSE IF ~quantity.passed THEN Insufficient(quantity.message)
             ELSE IF ~logical.passed THEN Insufficient(logical.message)
             ELSE Sufficient

check_sufficiency(d) ==
    IF d = NoFrame \/ IsEmptyFrame(d) THEN Insufficient(MsgNoData)
    ELSE LET volume == check_data_volume(d)
             product == check_product_identifiers(d)
             quantity == check_quantity_meaning(d)
             time == check_time_context(d)
             logical == check_logical_consistency(d, quantity.cols)
         IN  IF ~volume.passed THEN Insufficient(volume.message)
             ELSE IF ~product.passed THEN Insufficient(product.message)
             ELSE IF ~quantity.passed THEN Insufficient(quantity.message)
             ELSE IF ~time.passed THEN Insufficient(time.message)
             ELSE IF ~logical.passed THEN Insufficient(logical.message)
             ELSE Sufficient

(***************************************************************************)
(* Stage 3: ai/structure_inference.py                                      *)
(***************************************************************************)
ROLE_PATTERNS ==
    [product_id    |-> {"product_id", "sku", "item", "code", "product",
                        "item sold"},
     product_name  |-> {"product_name", "description", "name"},
     date          |-> {"date", "sale_date", "date sold"},
     quantity_sold |-> {"units_sold", "sold", "date sold", "item sold"},
     quantity      |-> {"quantity", "qty"},
     current_stock |-> {"stock"},
     expiry        |-> {"expiry_date"},
     price         |-> {"price"}]

\* variant: quantity examined before quantity_sold
priority_order_quantity_first ==
    <<"product_id", "date", "quantity", "quantity_sold",
      "current_stock", "expiry", "product_name", "price">>

priority_order ==
    <<"product_id", "date", "quantity_sold", "quantity",
      "current_stock", "expiry", "product_name", "price">>

MsgNoAnalysisData == "No data available for analysis."
MsgRoleProduct == "Unable to identify a product identifier column. Please ensure your file has a column for product IDs, SKUs, or item codes."
MsgRoleQuantity == "Unable to identify a quantity column. Please ensure your file has a column for units, stock levels, or quantities sold."
MsgRoleDate == "Unable to identify a date column. Please ensure your file has a column for dates or time periods."
MsgNoSalesPrep == "Unable to prepare sales data for analysis. Required columns may be missing."
MsgNoProductPrep == "Unable to prepare product data for analysis."
MsgFewSales == "Insufficient sales data to generate meaningful analytics. At least 2 records are required."
MsgFewDates == "Sales data must span at least 2 different dates for trend analysis."
MsgNoProducts == "No products identified in the data."
MsgNoAnalytics == "Unable to generate analytics for any products. The data may contain inconsistencies."
MsgReady == "Data successfully analyzed. Dashboard generated."
MsgAnalysisError == "An error occurred during analysis. Please ensure your data is properly formatted."

match_column_to_role(column_name, role) ==
    Lower(column_name) \in ROLE_PATTERNS[role]

\* the empty role mapping {}
NoRoles == [r \in {} |-> ""]

\* the position of a column label in the frame (labels are distinct)
ColumnIndex(d, label) == CHOOSE i \in 1..Len(d.columns) : d.columns[i] = label

\* the inner loop of infer_column_roles for one role: the first column that
\* is not used and matches; for role "quantity" every match is skipped once
\* "quantity_sold" is bound.  0 when the loop ends without binding.
\* variant: columns already consumed by an earlier role are examined again
FirstFreeMatch_reuse(d, role, mapping, used) ==
    LET hits == SelectIdx([i \in 1..Len(d.columns) |->
                    /\ match_column_to_role(d.columns[i], role)
                    /\ ~(role = "quantity" /\ "quantity_sold" \in DOMAIN mapping)],
                    1, Len(d.columns))
    IN  IF hits = <<>> THEN 0 ELSE hits[1]

FirstFreeMatch(d, role, mapping, used) ==
    LET hits == SelectIdx([i \in 1..Len(d.columns) |->
                    /\ d.columns[i] \notin used
                    /\ match_column_to_role(d.columns[i], role)
                    /\ ~(role = "quantity" /\ "quantity_sold" \in DOMAIN mapping)],
                    1, Len(d.columns))
    IN  IF hits = <<>> THEN 0 ELSE hits[1]

RECURSIVE InferRolesFrom(_, _, _, _)
InferRolesFrom(d, k, mapping, used) ==
    IF k > Len(priority_order) THEN mapping
    ELSE LET role == priority_order[k]
             i == FirstFreeMatch(d, role, mapping, used)
         IN  IF i = 0 THEN InferRolesFrom(d, k + 1, mapping, used)
             ELSE InferRolesFrom(d, k + 1, mapping @@ (role :> d.columns[i]),
                                 used \cup {d.columns[i]})

infer_column_roles(d) ==
    LET m == InferRolesFrom(d, 1, NoRoles, {})
    IN  IF "quantity_sold" \notin DOMAIN m /\ "quantity" \in DOMAIN m
        THEN m @@ ("quantity_sold" :> m["quantity"])
        ELSE m

\* variant: the date role examined first
validate_required_roles_date_first(mapping) ==
    IF "date" \notin DOMAIN mapping
    THEN [valid |-> FALSE, error_msg |-> MsgRoleDate]
    ELSE IF "product_id" \notin DOMAIN mapping
    THEN [valid |-> FALSE, error_msg |-> MsgRoleProduct]
    ELSE IF /\ "quantity" \notin DOMAIN mapping
            /\ "quantity_sold" \notin DOMAIN mapping
            /\ "current_stock" \notin DOMAIN mapping
    THEN [valid |-> FALSE, error_msg |-> MsgRoleQuantity]
    ELSE [valid |-> TRUE, error_msg |-> ""]

validate_required_roles(mapping) ==
    IF "product_id" \notin DOMAIN mapping
    THEN [valid |-> FALSE, error_msg |-> MsgRoleProduct]
    ELSE IF /\ "quantity" \notin DOMAIN mapping
            /\ "quantity_sold" \notin DOMAIN mapping
            /\ "current_stock" \notin DOMAIN mapping
    THEN [valid |-> FALSE, error_msg |-> MsgRoleQuantity]
    ELSE IF "date" \notin DOMAIN mapping
    THEN [valid |-> FALSE, error_msg |-> MsgRoleDate]
    ELSE [valid |-> TRUE, error_msg |-> ""]

\* role_mapping.get(a) or role_mapping.get(b) or role_mapping.get(c); "" is None
GetFirst(mapping, roles) ==
    LET hits == SelectIdx([i \in 1..Len(roles) |-> roles[i] \in DOMAIN mapping],
                          1, Len(roles))
    IN  IF hits = <<>> THEN "" ELSE mapping[roles[hits[1]]]

\* the staged sales table: None (NoSales) when a column is missing, else the
\* rows of df[[product, date, qty]] that survive
\* dropna(subset=["product_id", "date", "quantity_sold"]) after the date and
\* the quantity were coerced; idx is the row's index label in the frame
NoSales == <<[idx |-> 0, product_id |-> Null, date |-> 0, year |-> 0,
              quantity_sold |-> 0]>>

\* variant: rows without a numeric quantity are kept
prepare_sales_csv_any_quantity(d, mapping) ==
    LET product_col == GetFirst(mapping, <<"product_id">>)
        date_col == GetFirst(mapping, <<"date">>)
        qty_col == GetFirst(mapping, <<"quantity_sold", "quantity", "current_stock">>)
    IN  IF product_col = "" \/ date_col = "" \/ qty_col = "" THEN NoSales
        ELSE LET p == d.cells[ColumnIndex(d, product_col)]
                 t == d.cells[ColumnIndex(d, date_col)]
                 q == d.cells[ColumnIndex(d, qty_col)]
                 kept == SelectIdx([r \in 1..d.nrows |->
                             /\ p[r].k # "null"
                             /\ IsDatetime(t[r])], 1, d.nrows)
             IN  [j \in 1..Len(kept) |->
                     [idx |-> kept[j],
                      product_id |-> p[kept[j]],
                      date |-> DatetimeKey(t[kept[j]]),
                      year |-> DatetimeYear(t[kept[j]]),
                      quantity_sold |-> q[kept[j]].n]]

prepare_sales_csv(d, mapping) ==
    LET product_col == GetFirst(mapping, <<"product_id">>)
        date_col == GetFirst(mapping, <<"date">>)
        qty_col == GetFirst(mapping, <<"quantity_sold", "quantity", "current_stock">>)
    IN  IF product_col = "" \/ date_col = "" \/ qty_col = "" THEN NoSales
        ELSE LET p == d.cells[ColumnIndex(d, product_col)]
                 t == d.cells[ColumnIndex(d, date_col)]
                 q == d.cells[ColumnIndex(d, qty_col)]
                 kept == SelectIdx([r \in 1..d.nrows |->
                             /\ p[r].k # "null"
                             /\ IsDatetime(t[r])
                             /\ IsNumeric(q[r])], 1, d.nrows)
             IN  [j \in 1..Len(kept) |->
                     [idx |-> kept[j],
                      product_id |-> p[kept[j]],
                      date |-> DatetimeKey(t[kept[j]]),
                      year |-> DatetimeYear(t[kept[j]]),
                      quantity_sold |-> q[kept[j]].n]]

\* df[col].unique(): the distinct cells in order of first appearance (one NaN
\* for all missing cells)
RECURSIVE UniqueFrom(_, _, _)
UniqueFrom(col, i, seen) ==
    IF i > Len(col) THEN <<>>
    ELSE IF col[i] \in seen THEN UniqueFrom(col, i + 1, seen)
    ELSE <<col[i]>> \o UniqueFrom(col, i + 1, seen \cup {col[i]})

Unique(col) == UniqueFrom(col, 1, {})

DefaultStock == 100
DefaultExpiry == 30
MaxProducts == 10

\* pd.to_numeric(product_rows[c], errors="coerce").dropna() over the rows of
\* the frame whose product cell equals pid (no row equals a missing pid)
ProductValues(d, pcol, c, pid) ==
    LET keep == [r \in 1..d.nrows |->
                    /\ pid.k # "null"
                    /\ d.cells[pcol][r] = pid
                    /\ IsNumeric(d.cells[c][r])]
        idx == SelectIdx(keep, 1, d.nrows)
    IN  [j \in 1..Len(idx) |-> d.cells[c][idx[j]].n]

\* the staged product snapshot table (products.csv): one record per distinct
\* product cell
prepare_products_csv(d, mapping) ==
    LET product_col == GetFirst(mapping, <<"product_id">>)
        stock_col == GetFirst(mapping, <<"current_stock", "quantity">>)
        expiry_col == GetFirst(mapping, <<"expiry">>)
    IN  IF product_col = "" THEN <<>>
        ELSE LET pcol == ColumnIndex(d, product_col)
                 product_ids == Unique(d.cells[pcol])
             IN  [j \in 1..Len(product_ids) |->
                    LET pid == product_ids[j]
                        stock_vals ==
                            IF stock_col # ""
                            THEN ProductValues(d, pcol, ColumnIndex(d, stock_col), pid)
                            ELSE <<>>
                        expiry_vals ==
                            IF expiry_col # ""
                            THEN ProductValues(d, pcol, ColumnIndex(d, expiry_col), pid)
                            ELSE <<>>
                    IN  [product_id |-> pid,
                         current_stock |->
                             IF Len(stock_vals) > 0
                             THEN stock_vals[Len(stock_vals)] ELSE DefaultStock,
                         days_to_expiry |->
                             IF Len(expiry_vals) > 0
                             THEN expiry_vals[1] ELSE DefaultExpiry]]

\* validate_analytics_readiness on the two staged tables
validate_analytics_readiness(sales, products) ==
    IF Len(sales) < 2
    THEN [valid |-> FALSE, error_msg |-> MsgFewSales]
    ELSE IF Cardinality({sales[j].date : j \in 1..Len(sales)}) < 2
    THEN [valid |-> FALSE, error_msg |-> MsgFewDates]
    ELSE IF Len(products) = 0
    THEN [valid |-> FALSE, error_msg |-> MsgNoProducts]
    ELSE [valid |-> TRUE, error_msg |-> ""]

(***************************************************************************)
(* The decision engine: ai/decision_engine.py.  A number of days is kept   *)
(* in tenths (the engine receives days_to_stockout rounded to one          *)
(* decimal); an explanation is its template and the values formatted into  *)
(* it, in order.                                                           *)
(***************************************************************************)
MsgUrgent == "Stock depletes in {} days. Supplier delivers in {} days. Order now to avoid lost sales."
MsgRunningLow == "Stock running low. Demand is steady. Reorder {} units to maintain availability."
MsgDiscount == "Expiry in {} days. Stock exceeds demand. Discount to reduce waste."
MsgWait == "Stock levels healthy. No action needed. Next review in 3 days."

Max(a, b) == IF a >= b THEN a ELSE b

\* Python round(num / den), den > 0: the nearest integer; at an exact half
\* the even neighbour when the float holds the half exactly, and otherwise
\* the neighbour the float error selects (ties: "down" or "up")
PyRound(num, den, exact, ties) ==
    LET q == num \div den
        r == num % den
    IN  IF 2 * r < den THEN q
        ELSE IF 2 * r > den THEN q + 1
        ELSE IF exact THEN (IF q % 2 = 0 THEN q ELSE q + 1)
        ELSE IF ties = "up" THEN q + 1 ELSE q

\* days_to_stockout is None
NoStockout == [defined |-> FALSE, tenths |-> 0]
Stockout(t) == [defined |-> TRUE, tenths |-> t]

\* variant: the minimum order applies even when nothing is needed
calculate_reorder_quantity_min_always(forecast_demand, current_stock, min_order) ==
    LET target_stock == PyRound(12 * forecast_demand, 10, TRUE, "down")
        needed == Max(0, target_stock - current_stock)
    IN  Max(min_order, needed)

\* safety_buffer = 1.2: forecast_demand * 1.2 is never an exact half
calculate_reorder_quantity(forecast_demand, current_stock, min_order) ==
    LET target_stock == PyRound(12 * forecast_demand, 10, TRUE, "down")
        needed == Max(0, target_stock - current_stock)
    IN  IF needed = 0 THEN 0 ELSE Max(min_order, needed)

Explanation(template, args) == [template |-> template, args |-> args]

Arg(name, value) == [name |-> name, value |-> value]

\* variant: every REORDER carries the running-low explanation
decision_generate_explanation_no_urgency(decision, days_to_stockout, days_to_expiry, lead_time, risk_level, quantity) ==
    IF decision = "REORDER"
    THEN Explanation(MsgRunningLow, <<Arg("quantity", quantity)>>)
    ELSE IF decision = "DISCOUNT"
    THEN Explanation(MsgDiscount, <<Arg("days_to_expiry", days_to_expiry)>>)
    ELSE Explanation(MsgWait, <<>>)

\* decision_engine.generate_explanation; a days_to_stockout of None or 0.0 is
\* falsy, and round() of a one-decimal number holds its halves exactly
decision_generate_explanation(decision, days_to_stockout, days_to_expiry, lead_time, risk_level, quantity) ==
    IF decision = "REORDER"
    THEN IF /\ days_to_stockout.defined
            /\ days_to_stockout.tenths # 0
            /\ days_to_stockout.tenths < 10 * (lead_time + 1)
         THEN Explanation(MsgUrgent,
                  <<Arg("days_to_stockout",
                        PyRound(days_to_stockout.tenths, 10, TRUE, "down")),
                    Arg("lead_time", lead_time)>>)
         ELSE Explanation(MsgRunningLow, <<Arg("quantity", quantity)>>)
    ELSE IF decision = "DISCOUNT"
    THEN Explanation(MsgDiscount, <<Arg("days_to_expiry", days_to_expiry)>>)
    ELSE Explanation(MsgWait, <<>>)

Decision(decision, quantity, explanation) ==
    [decision |-> decision, quantity |-> quantity, explanation |-> explanation]

\* no decision was made
NoDecision == Decision("", 0, Explanation("", <<>>))

\* variant: the stockout rule examined before the expiry rule
make_decision_stockout_first(demand_data, risk_data, supplier_info) ==
    LET risk_level == risk_data.risk_level
        days_to_stockout == risk_data.days_to_stockout
        days_to_expiry == risk_data.days_to_expiry
        current_stock == risk_data.current_stock
        excess_units == risk_data.excess_units
        total_demand == demand_data.total_demand
        lead_time == supplier_info.lead_time
        min_order == supplier_info.min_order
        reorder_qty == calculate_reorder_quantity(total_demand, current_stock, min_order)
    IN  IF /\ days_to_stockout.defined
           /\ days_to_stockout.tenths <= 10 * (lead_time + 2)
        THEN Decision("REORDER", reorder_qty,
                 decision_generate_explanation("REORDER", days_to_stockout,
                     days_to_expiry, lead_time, risk_level, reorder_qty))
        ELSE IF risk_level = "HIGH" /\ excess_units > 0
        THEN Decision("DISCOUNT", excess_units,
                 decision_generate_explanation("DISCOUNT", days_to_stockout,
                     days_to_expiry, lead_time, risk_level, 0))
        ELSE IF 10 * current_stock < 8 * total_demand
        THEN Decision("REORDER", reorder_qty,
                 decision_generate_explanation("REORDER", days_to_stockout,
                     days_to_expiry, lead_time, risk_level, reorder_qty))
        ELSE Decision("WAIT", 0,
                 decision_generate_explanation("WAIT", days_to_stockout,
                     days_to_expiry, lead_time, risk_level, 0))

\* current_stock < total_demand * 0.8 as 10 * current_stock < 8 * total_demand
make_decision(demand_data, risk_data, supplier_info) ==
    LET risk_level == risk_data.risk_level
        days_to_stockout == risk_data.days_to_stockout
        days_to_expiry == risk_data.days_to_expiry
        current_stock == risk_data.current_stock
        excess_units == risk_data.excess_units
        total_demand == demand_data.total_demand
        lead_time == supplier_info.lead_time
        min_order == supplier_info.min_order
        reorder_qty == calculate_reorder_quantity(total_demand, current_stock, min_order)
    IN  IF risk_level = "HIGH" /\ excess_units > 0
        THEN Decision("DISCOUNT", excess_units,
                 decision_generate_explanation("DISCOUNT", days_to_stockout,
                     days_to_expiry, lead_time, risk_level, 0))
        ELSE IF /\ days_to_stockout.defined
                /\ days_to_stockout.tenths <= 10 * (lead_time + 2)
        THEN Decision("REORDER", reorder_qty,
                 decision_generate_explanation("REORDER", days_to_stockout,
                     days_to_expiry, lead_time, risk_level, reorder_qty))
        ELSE IF 10 * current_stock < 8 * total_demand
        THEN Decision("REORDER", reorder_qty,
                 decision_generate_explanation("REORDER", days_to_stockout,
                     days_to_expiry, lead_time, risk_level, reorder_qty))
        ELSE Decision("WAIT", 0,
                 decision_generate_explanation("WAIT", days_to_stockout,
                     days_to_expiry, lead_time, risk_level, 0))

\* pd.read_csv of a staged product_id column: a column whose non-missing
\* values are all numbers is read back as numbers, any other as strings
ReadAsNumbers(ids) == \A j \in 1..Len(ids) : ids[j].k \in {"num", "null"}

\* analyze_expiry_risk's lookup products_df["product_id"] == str(pid) on the
\* table read back from products.csv: a string equals no number, and str(nan)
\* equals no missing value
ProductFound(products, pid) ==
    /\ pid.k # "null"
    /\ ~ReadAsNumbers([j \in 1..Len(products) |-> products[j].product_id])

(***************************************************************************)
(* ai/demand_forecast.py and ai/expiry_risk.py on the staged tables.  A    *)
(* mean is kept as the exact fraction num / den, den > 0.  Where round()   *)
(* meets an exact half that the float computation does not hold exactly,   *)
(* either neighbour may come out (ties).                                   *)
(***************************************************************************)
DefaultLeadTime == 3
DefaultMinOrder == 20
ForecastDays == 7
TieOutcomes == {"down", "up"}

RECURSIVE SumSeq(_)
SumSeq(q) == IF q = <<>> THEN 0 ELSE Head(q) + SumSeq(Tail(q))

\* str(pid) of an identifier read back from products.csv
Str(pid) ==
    CASE pid.k = "null" -> Text("nan")
      [] pid.k = "num" -> Text(ToString(pid.n))
      [] OTHER -> pid

\* the fraction num / den is a binary fraction: the float holds it exactly
Dyadic(num, den) == \E k \in {1, 2, 4, 8, 16} : (num * k) % den = 0

RECURSIVE SortByDate(_)
\* sort_values("date"): ascending, rows of equal date in their order
SortByDate(rows) ==
    IF rows = <<>> THEN <<>>
    ELSE LET i == CHOOSE a \in 1..Len(rows) :
                      \A b \in 1..Len(rows) :
                          \/ rows[a].date < rows[b].date
                          \/ rows[a].date = rows[b].date /\ a <= b
         IN  <<rows[i]>> \o SortByDate(SubSeq(rows, 1, i - 1)
                                           \o SubSeq(rows, i + 1, Len(rows)))

\* sales_df[sales_df["product_id"] == product_id]["quantity_sold"] for
\* product_id = str(pid), on the table read back from sales.csv: a
\* product_id column read back as numbers equals no string
product_sales(sales, pid) ==
    LET ids == [j \in 1..Len(sales) |-> sales[j].product_id]
        idx == SelectIdx([j \in 1..Len(sales) |->
                   /\ ~ReadAsNumbers(ids)
                   /\ pid.k # "null"
                   /\ sales[j].product_id = pid], 1, Len(sales))
        rows == SortByDate([j \in 1..Len(idx) |-> sales[idx[j]]])
    IN  [j \in 1..Len(rows) |-> rows[j].quantity_sold]

\* calculate_daily_average, calculate_sales_velocity: the mean, 0.0 without rows
Mean(q) == IF q = <<>> THEN [num |-> 0, den |-> 1]
           ELSE [num |-> SumSeq(q), den |-> Len(q)]

\* calculate_trend on the quantities in date order
calculate_trend(q) ==
    IF Len(q) < 4 THEN [num |-> 0, den |-> 1]
    ELSE LET mid_point == Len(q) \div 2
             first_half == Mean(SubSeq(q, 1, mid_point))
             second_half == Mean(SubSeq(q, mid_point + 1, Len(q)))
             num == second_half.num * first_half.den - first_half.num * second_half.den
             den == second_half.den * first_half.num
         IN  IF first_half.num = 0 THEN [num |-> 0, den |-> 1]
             ELSE IF den < 0 THEN [num |-> 0 - num, den |-> 0 - den]
             ELSE [num |-> num, den |-> den]

\* variant: the predicted units are not floored at 0
forecast_demand_no_floor(sales, pid, ties) ==
    LET q == product_sales(sales, pid)
        daily_avg == Mean(q)
        trend == calculate_trend(q)
        daily_forecast ==
            [day \in 1..ForecastDays |->
                PyRound(daily_avg.num * (ForecastDays * trend.den + trend.num * day),
                        daily_avg.den * ForecastDays * trend.den,
                        trend.num = 0, ties)]
    IN  [daily_forecast |-> daily_forecast, total_demand |-> SumSeq(daily_forecast)]

\* forecast_demand: day d is max(0, round(daily_avg * (1 + trend * d / 7)))
forecast_demand(sales, pid, ties) ==
    LET q == product_sales(sales, pid)
        daily_avg == Mean(q)
        trend == calculate_trend(q)
        daily_forecast ==
            [day \in 1..ForecastDays |->
                Max(0, PyRound(daily_avg.num * (ForecastDays * trend.den + trend.num * day),
                               daily_avg.den * ForecastDays * trend.den,
                               trend.num = 0, ties))]
    IN  [daily_forecast |-> daily_forecast, total_demand |-> SumSeq(daily_forecast)]

\* float('inf')
Infinite == [finite |-> FALSE, num |-> 0, den |-> 1, above |-> FALSE]

\* estimate_days_to_stockout: the float current_stock / daily_velocity is the
\* fraction num / den, or with above a float just over it: the quotient of
\* a non-zero integer by a mean that the float does not hold exactly can
\* come out one unit in the last place high (42 / (7 / 5) is
\* 30.000000000000004)
estimate_days_to_stockout(current_stock, daily_velocity, ties) ==
    IF daily_velocity.num <= 0 THEN Infinite
    ELSE [finite |-> TRUE,
          num |-> current_stock * daily_velocity.den,
          den |-> daily_velocity.num,
          above |-> /\ current_stock # 0
                    /\ ~Dyadic(daily_velocity.num, daily_velocity.den)
                    /\ ties = "up"]

\* days - days_to_stockout < limit, for a finite days_to_stockout
BufferUnder(days, days_to_stockout, limit) ==
    \/ (days - limit) * days_to_stockout.den < days_to_stockout.num
    \/ /\ (days - limit) * days_to_stockout.den = days_to_stockout.num
       /\ days_to_stockout.above

\* variant: a buffer of exactly 2 days is still MEDIUM
calculate_risk_level_two_is_medium(days_to_expiry, days_to_stockout) ==
    IF ~days_to_stockout.finite THEN "HIGH"
    ELSE IF BufferUnder(days_to_expiry, days_to_stockout, 0) THEN "HIGH"
    ELSE IF \/ BufferUnder(days_to_expiry, days_to_stockout, 2)
            \/ (days_to_expiry - 2) * days_to_stockout.den = days_to_stockout.num
    THEN "MEDIUM"
    ELSE "LOW"

calculate_risk_level(days_to_expiry, days_to_stockout) ==
    IF ~days_to_stockout.finite THEN "HIGH"
    ELSE IF BufferUnder(days_to_expiry, days_to_stockout, 0) THEN "HIGH"
    ELSE IF BufferUnder(days_to_expiry, days_to_stockout, 2) THEN "MEDIUM"
    ELSE "LOW"

\* variant: the whole stock is at risk when stockout comes after expiry
calculate_excess_units_whole_stock(current_stock, days_to_expiry, daily_velocity, days_to_stockout, ties) ==
    IF ~days_to_stockout.finite \/ BufferUnder(days_to_expiry, days_to_stockout, 0)
    THEN Max(0, current_stock)
    ELSE 0

\* variant: no units at risk while stock never runs out
calculate_excess_units_finite_stockout_only(current_stock, days_to_expiry, daily_velocity, days_to_stockout, ties) ==
    IF days_to_stockout.finite /\ BufferUnder(days_to_expiry, days_to_stockout, 0)
    THEN LET units_sellable ==
                 PyRound(daily_velocity.num * days_to_expiry, daily_velocity.den,
                         Dyadic(daily_velocity.num, daily_velocity.den), ties)
         IN  Max(0, current_stock - units_sellable)
    ELSE 0

\* analyze_expiry_risk 118-123: the units at risk of expiring
calculate_excess_units(current_stock, days_to_expiry, daily_velocity, days_to_stockout, ties) ==
    IF ~days_to_stockout.finite \/ BufferUnder(days_to_expiry, days_to_stockout, 0)
    THEN LET units_sellable ==
                 PyRound(daily_velocity.num * days_to_expiry, daily_velocity.den,
                         Dyadic(daily_velocity.num, daily_velocity.den), ties)
         IN  Max(0, current_stock - units_sellable)
    ELSE 0

NoRisk == [raised |-> TRUE, risk_level |-> "", days_to_expiry |-> 0,
           days_to_stockout |-> NoStockout, current_stock |-> 0, excess_units |-> 0]

\* analyze_expiry_risk: raises ValueError when the lookup finds no record
analyze_expiry_risk(products, sales, pid, ties) ==
    IF ~ProductFound(products, pid) THEN NoRisk
    ELSE LET product == products[CHOOSE j \in 1..Len(products) :
                                    /\ products[j].product_id = pid
                                    /\ \A i \in 1..(j - 1) : products[i].product_id # pid]
             current_stock == product.current_stock
             days_to_expiry == product.days_to_expiry
             v == Mean(product_sales(sales, pid))
             exact_stockout == estimate_days_to_stockout(current_stock, v, ties)
             infinite == ~exact_stockout.finite
         IN  [raised |-> FALSE,
              risk_level |-> calculate_risk_level(days_to_expiry, exact_stockout),
              days_to_expiry |-> days_to_expiry,
              days_to_stockout |->
                  IF infinite THEN NoStockout
                  ELSE Stockout(PyRound(10 * current_stock * v.den, v.num,
                                        /\ Dyadic(v.num, v.den)
                                        /\ Dyadic(current_stock * v.den, v.num),
                                        ties)),
              current_stock |-> current_stock,
              excess_units |->
                  calculate_excess_units(current_stock, days_to_expiry, v,
                                         exact_stockout, ties)]

\* get_supplier_info on the suppliers.csv of prepare_suppliers_csv: every
\* record, and the default for an identifier that is not found, is 3 and 20
get_supplier_info(pid) ==
    [lead_time |-> DefaultLeadTime, min_order |-> DefaultMinOrder]

NoAnalysis(pid) ==
    [product_id |-> Str(pid), success |-> FALSE, forecast |-> <<>>,
     total_demand |-> 0, risk_data |-> NoRisk, decision_data |-> NoDecision]

\* run_analysis after step 1 (forecast_demand), inside the try of
\* run_analytics_for_product: steps 2 to 4 and the compiled result; an
\* exception gives success False
analyze_after_forecast(pid, demand_data, products, sales, ties) ==
    LET risk_data == analyze_expiry_risk(products, sales, pid, ties)
    IN  IF risk_data.raised THEN NoAnalysis(pid)
        ELSE [product_id |-> Str(pid), success |-> TRUE,
              forecast |-> demand_data.daily_forecast,
              total_demand |-> demand_data.total_demand,
              risk_data |-> risk_data,
              decision_data |-> make_decision(demand_data, risk_data,
                                              get_supplier_info(pid))]

run_analytics_for_product(pid, products, sales, ties) ==
    analyze_after_forecast(pid, forecast_demand(sales, pid, ties), products, sales, ties)

NoResult3 == [status |-> "none", reason |-> "", message |-> "", products |-> <<>>,
              total_products |-> 0, analyzed_products |-> 0]
Error3(reason) == [status |-> "error", reason |-> reason, message |-> "",
                   products |-> <<>>, total_products |-> 0, analyzed_products |-> 0]
Ready3(results, total) ==
    [status |-> "ready", reason |-> "", message |-> MsgReady, products |-> results,
     total_products |-> total, analyzed_products |-> Len(results)]

\* variant: the loop ends at the first product whose analysis fails
analytics_results_stop_at_failure(products, sales, ties) ==
    LET first == Head5(products, MaxProducts)
        result == [j \in 1..Len(first) |->
                      run_analytics_for_product(first[j].product_id, products, sales, ties)]
        idx == SelectIdx([j \in 1..Len(first) |->
                   \A i \in 1..j : result[i].success], 1, Len(first))
    IN  [j \in 1..Len(idx) |-> result[idx[j]]]

\* run_analytics_for_product for the products of the loop, product_ids[:10]:
\* the successful results, in order
analytics_results(products, sales, ties) ==
    LET first == Head5(products, MaxProducts)
        result == [j \in 1..Len(first) |->
                      run_analytics_for_product(first[j].product_id, products, sales, ties)]
        idx == SelectIdx([j \in 1..Len(first) |-> result[j].success], 1, Len(first))
    IN  [j \in 1..Len(idx) |-> result[idx[j]]]

(***************************************************************************)
(* Inputs.  A column of an input sheet is a label and a fill, the rule     *)
(* that gives the cell of each row; the columns of a sheet are taken in    *)
(* the order of LabelOrder.                                                *)
(***************************************************************************)
LabelOrder ==
    <<"product_id", "product_name", "date", "year", "quantity", "sales",
      "units_sold", "stock", "price", "employee", "notes">>

FillsOf(label) ==
    CASE label = "product_id" -> {"ids", "nulls", "numids"}
      [] label = "date" -> {"dates", "samedate"}
      [] label = "year" -> {"periods"}
      [] label = "quantity" -> {"nums", "zeros", "words", "signed"}
      [] label \in {"sales", "units_sold", "stock"} -> {"nums"}
      [] label = "price" -> {"nums", "words"}
      [] label = "notes" -> {"hrwords", "sigwords", "onenum"}
      [] OTHER -> {"ids"}

FillCell(fill, r) ==
    CASE fill = "ids" -> IF r % 2 = 1 THEN Text("p1") ELSE Text("p2")
      [] fill = "numids" -> Num(100 + r)
      [] fill = "nulls" -> Null
      [] fill = "nums" -> Num(r)
      [] fill = "zeros" -> Num(0)
      [] fill = "signed" -> IF r % 2 = 1 THEN Num(5) ELSE Num(0 - 5)
      [] fill = "dates" -> Date(202400 + r)
      [] fill = "samedate" -> Date(202401)
      [] fill = "olddates" -> Date(185000 + r)
      [] fill = "periods" -> Num(2020 + r)
      [] fill = "hrwords" -> IF r = 1 THEN Text("employee") ELSE Text("widget")
      [] fill = "sigwords" -> IF r = 1 THEN Text("sold") ELSE Text("widget")
      [] fill = "onenum" -> IF r = 1 THEN Num(7) ELSE Text("widget")
      [] OTHER -> Text("widget")

RECURSIVE ColumnChoices(_, _)
\* the column lists over the labels LabelOrder[k..], at most maxc columns
ColumnChoices(k, maxc) ==
    IF k > Len(LabelOrder) \/ maxc = 0 THEN {<<>>}
    ELSE ColumnChoices(k + 1, maxc)
         \cup {<<[label |-> LabelOrder[k], fill |-> f]>> \o rest :
                  f \in FillsOf(LabelOrder[k]), rest \in ColumnChoices(k + 1, maxc - 1)}

FilledFrame(cs, n) ==
    Frame([i \in 1..Len(cs) |-> cs[i].label], n,
          [i \in 1..Len(cs) |-> [r \in 1..n |-> FillCell(cs[i].fill, r)]])

EmptySheet == Frame(<<>>, 0, <<>>)

SheetFrames ==
    {EmptySheet} \cup
    {FilledFrame(cs, n) : cs \in ColumnChoices(1, MaxCols) \ {<<>>}, n \in 0..MaxRows}

PdfTokens == {"stock", "date", "product", "payroll", "7", "2024-01-01", "report"}

PdfTexts == UNION {[1..m -> PdfTokens] : m \in 0..MaxTextLen}

ExcelFile(ext, t) == [ext |-> ext, exists |-> TRUE, content |-> "table",
                      table |-> t, text |-> <<>>]
PdfFile(ext, x) == [ext |-> ext, exists |-> TRUE, content |-> "text",
                    table |-> NoFrame, text |-> x]
CorruptFile(ext) == [ext |-> ext, exists |-> TRUE, content |-> "corrupt",
                     table |-> NoFrame, text |-> <<>>]

Files ==
    {ExcelFile(".xlsx", t) : t \in SheetFrames}
    \cup {PdfFile(".pdf", x) : x \in PdfTexts}
    \cup {CorruptFile(e) : e \in {".xlsx", ".xls", ".pdf"}}
    \cup {ExcelFile(".csv", EmptySheet), PdfFile(".xlsx", <<"report">>),
          ExcelFile(".pdf", EmptySheet)}

\* the loop has not started
NoLoop == [ties |-> "none", forecast |-> <<>>, results |-> <<>>, done |-> {}]

\* no call of make_decision
NoEngine == [product_id |-> Null,
             demand_data |-> [daily_forecast |-> <<>>, total_demand |-> 0],
             trend |-> [num |-> 0, den |-> 1],
             daily_velocity |-> [num |-> 0, den |-> 1],
             days_to_stockout |-> Infinite,
             risk_data |-> [risk_level |-> "", days_to_expiry |-> 0,
                            days_to_stockout |-> NoStockout, current_stock |-> 0,
                            excess_units |-> 0],
             supplier_info |-> [lead_time |-> 0, min_order |-> 0],
             decision_data |-> NoDecision]

NoEdit == [kind |-> "none", value |-> 0, before |-> "none"]

Idle ==
    /\ stage1_result = NoResult
    /\ path_result = NoResult
    /\ stage2_result = NoResult2
    /\ stage3_result = NoResult3
    /\ role_mapping = NoRoles
    /\ temp_dir = "none"
    /\ sales_df = NoSales
    /\ products_df = <<>>
    /\ loop = NoLoop
    /\ engine = NoEngine
    /\ calls = <<>>
    /\ edit = NoEdit

(***************************************************************************)
(* The upload handler of app.py.                                           *)
(***************************************************************************)
Init ==
    /\ uploaded_file \in Files
    /\ PDF_SUPPORT \in (IF uploaded_file.ext = ".pdf" THEN BOOLEAN ELSE {TRUE})
    /\ df = NoFrame
    /\ pc = "start"
    /\ Idle

\* variant: stage 3 entered whenever stage 2 returned
stage2_pass_any == stage2_result.status # "none"

stage1_pass == stage1_result.status = "valid"
stage2_pass == stage2_result.status = "sufficient"
stage3_pass == stage3_result.status = "ready"

\* app.py 241-250
Stage1 ==
    /\ pc = "start"
    /\ stage1_result' = validate_uploaded_file(uploaded_file, PDF_SUPPORT)
    /\ calls' = Append(calls, "validate_uploaded_file")
    /\ pc' = "stage1_done"
    /\ UNCHANGED <<uploaded_file, PDF_SUPPORT, loop, engine, path_result, df, stage2_result,
                   stage3_result, role_mapping, temp_dir, sales_df, products_df, edit>>

\* app.py 255-256: the frame is read again only from a spreadsheet
ReadFrame(f, file_type) == IF file_type = "excel" THEN f.table ELSE NoFrame

\* app.py 252-258
LoadFrame ==
    /\ pc = "stage1_done"
    /\ stage1_pass
    /\ df' = ReadFrame(uploaded_file, stage1_result.file_type)
    /\ pc' = "loaded"
    /\ UNCHANGED <<uploaded_file, PDF_SUPPORT, loop, engine, stage1_result, path_result,
                   stage2_result, stage3_result, role_mapping, temp_dir, sales_df,
                   products_df, calls, edit>>

\* app.py 260-262
Stage2 ==
    /\ pc = "loaded"
    /\ df # NoFrame
    /\ stage2_result' = check_sufficiency(df)
    /\ calls' = Append(calls, "check_sufficiency")
    /\ pc' = "stage2_done"
    /\ UNCHANGED <<uploaded_file, PDF_SUPPORT, loop, engine, stage1_result, path_result, df,
                   stage3_result, role_mapping, temp_dir, sales_df, products_df, edit>>

\* variant: the scratch directory is left in place
rmtree_skipped(dir) == dir

\* the finally clause, shutil.rmtree(temp_dir, ignore_errors=True)
rmtree(dir) == "deleted"

\* run_stage3_analysis 328-343: the value returned after the loop
loop_result(results, products) ==
    IF results = <<>> THEN Error3(MsgNoAnalytics)
    ELSE Ready3(results, Len(products))

\* run_stage3_analysis 282-294: up to the creation of the scratch directory
EnterStage3 ==
    /\ calls' = Append(calls, "run_stage3_analysis")
    /\ IF df = NoFrame \/ IsEmptyFrame(df)
       THEN /\ stage3_result' = Error3(MsgNoAnalysisData)
            /\ pc' = "stage3_done"
            /\ UNCHANGED <<role_mapping, temp_dir>>
       ELSE LET m == infer_column_roles(df)
                v == validate_required_roles(m)
            IN  /\ role_mapping' = m
                /\ IF ~v.valid
                   THEN /\ stage3_result' = Error3(v.error_msg)
                        /\ pc' = "stage3_done"
                        /\ UNCHANGED temp_dir
                   ELSE /\ temp_dir' = "created"
                        /\ pc' = "stage3_prepare"
                        /\ UNCHANGED stage3_result
    /\ UNCHANGED <<uploaded_file, PDF_SUPPORT, loop, engine, stage1_result, path_result, df,
                   stage2_result, sales_df, products_df, edit>>

\* app.py 264-265
Stage3 ==
    /\ pc = "stage2_done"
    /\ stage2_pass
    /\ EnterStage3

\* run_stage3_analysis 296-318 (and the finally clause on an error return)
Stage3Prepare ==
    /\ pc = "stage3_prepare"
    /\ LET sales == prepare_sales_csv(df, role_mapping)
           products == prepare_products_csv(df, role_mapping)
           v == validate_analytics_readiness(sales, products)
       IN  IF sales = NoSales
           THEN /\ stage3_result' = Error3(MsgNoSalesPrep)
                /\ temp_dir' = rmtree(temp_dir)
                /\ pc' = "stage3_done"
                /\ UNCHANGED <<sales_df, products_df, loop>>
           ELSE IF products = <<>>
           THEN /\ stage3_result' = Error3(MsgNoProductPrep)
                /\ sales_df' = sales
                /\ temp_dir' = rmtree(temp_dir)
                /\ pc' = "stage3_done"
                /\ UNCHANGED <<products_df, loop>>
           ELSE /\ sales_df' = sales
                /\ products_df' = products
                /\ IF ~v.valid
                   THEN /\ stage3_result' = Error3(v.error_msg)
                        /\ temp_dir' = rmtree(temp_dir)
                        /\ pc' = "stage3_done"
                        /\ UNCHANGED loop
                   ELSE /\ pc' = "stage3_analyze"
                        /\ \E ties \in TieOutcomes :
                              loop' = [NoLoop EXCEPT !.ties = ties]
                        /\ UNCHANGED <<stage3_result, temp_dir>>
    /\ UNCHANGED <<uploaded_file, PDF_SUPPORT, engine, stage1_result, path_result, df,
                   stage2_result, role_mapping, calls, edit>>

\* run_stage3_analysis 320-356: the per-product loop, the result, the cleanup
Stage3Analyze ==
    /\ pc = "stage3_analyze"
    /\ stage3_result' =
           loop_result(analytics_results(products_df, sales_df, loop.ties), products_df)
    /\ temp_dir' = rmtree(temp_dir)
    /\ pc' = "stage3_done"
    /\ UNCHANGED <<uploaded_file, PDF_SUPPORT, loop, engine, stage1_result, path_result, df,
                   stage2_result, role_mapping, sales_df, products_df, calls, edit>>

\* run_stage3_analysis 346-356: an exception inside the guarded block (a
\* staged file cannot be written or read) ends the call with the generic
\* error, and the finally clause runs
Stage3Raise ==
    /\ pc \in {"stage3_prepare", "stage3_analyze"}
    /\ stage3_result' = Error3(MsgAnalysisError)
    /\ temp_dir' = rmtree(temp_dir)
    /\ pc' = "stage3_done"
    /\ UNCHANGED <<uploaded_file, PDF_SUPPORT, loop, engine, stage1_result, path_result, df,
                   stage2_result, role_mapping, sales_df, products_df, calls, edit>>

\* app.py 268-273: the stage pills are drawn once no further stage runs
Render ==
    /\ \/ pc = "stage1_done" /\ ~stage1_pass
       \/ pc = "loaded" /\ df = NoFrame
       \/ pc = "stage2_done" /\ ~stage2_pass
       \/ pc = "stage3_done"
    /\ pc' = "done"
    /\ UNCHANGED <<uploaded_file, PDF_SUPPORT, loop, engine, stage1_result, path_result, df,
                   stage2_result, stage3_result, role_mapping, temp_dir, sales_df,
                   products_df, calls, edit>>

Next ==
    \/ Stage1
    \/ LoadFrame
    \/ Stage2
    \/ Stage3
    \/ Stage3Prepare
    \/ Stage3Analyze
    \/ Stage3Raise
    \/ Render

Spec == Init /\ [][Next]_vars

(***************************************************************************)
(* The two entry points of stage 1 on one file (test_file_validator.py     *)
(* calls validate_file, app.py calls validate_uploaded_file).              *)
(***************************************************************************)
MissingFile == [ExcelFile(".xlsx", EmptySheet) EXCEPT !.exists = FALSE]

\* a sheet of n rows with the columns product_id, date and notes, the first
\* k cells of notes numbers and the others words
ShareFrame(n, k) ==
    Frame(<<"product_id", "date", "notes">>, n,
          <<[r \in 1..n |-> FillCell("ids", r)], [r \in 1..n |-> FillCell("dates", r)],
            [r \in 1..n |-> IF r <= k THEN Num(7) ELSE Text("widget")]>>)

InitIntent ==
    /\ \/ uploaded_file \in Files \cup {NoFile, MissingFile}
       \/ \E n \in 1..MaxShareRows, k \in 0..MaxShareRows :
              k <= n /\ uploaded_file = ExcelFile(".xlsx", ShareFrame(n, k))
    /\ PDF_SUPPORT \in (IF uploaded_file.ext = ".pdf" THEN BOOLEAN ELSE {TRUE})
    /\ df = NoFrame
    /\ pc = "intent"
    /\ Idle

ValidateUploadedFile ==
    /\ pc = "intent"
    /\ stage1_result = NoResult
    /\ stage1_result' = validate_uploaded_file(uploaded_file, PDF_SUPPORT)
    /\ calls' = Append(calls, "validate_uploaded_file")
    /\ UNCHANGED <<uploaded_file, PDF_SUPPORT, loop, engine, pc, path_result, df, stage2_result,
                   stage3_result, role_mapping, temp_dir, sales_df, products_df, edit>>

ValidateFile ==
    /\ pc = "intent"
    /\ path_result = NoResult
    /\ uploaded_file # NoFile
    /\ path_result' = validate_file(uploaded_file, PDF_SUPPORT)
    /\ calls' = Append(calls, "validate_file")
    /\ UNCHANGED <<uploaded_file, PDF_SUPPORT, loop, engine, pc, stage1_result, df, stage2_result,
                   stage3_result, role_mapping, temp_dir, sales_df, products_df, edit>>

NextIntent == ValidateUploadedFile \/ ValidateFile

SpecIntent == InitIntent /\ [][NextIntent]_vars

(***************************************************************************)
(* check_sufficiency on a frame (test_data_sufficiency.py), and the same   *)
(* check after values were added to the quantity column.                   *)
(***************************************************************************)
QuantityCells == {Null, Num(0), Num(5), Num(0 - 5)}

\* a frame of n rows with the columns product_id, date, quantity, price, each
\* present or not: pf, tf and xf are fills ("none": no such column), q is the
\* quantity column (<<>> with hasq FALSE: no such column)
GateFrame(n, pf, tf, hasq, q, xf) ==
    LET cols ==
            (IF pf = "none" THEN <<>> ELSE <<"product_id">>)
            \o (IF tf = "none" THEN <<>> ELSE <<"date">>)
            \o (IF hasq THEN <<"quantity">> ELSE <<>>)
            \o (IF xf = "none" THEN <<>> ELSE <<"price">>)
        cs ==
            (IF pf = "none" THEN <<>> ELSE <<[r \in 1..n |-> FillCell(pf, r)]>>)
            \o (IF tf = "none" THEN <<>> ELSE <<[r \in 1..n |-> FillCell(tf, r)]>>)
            \o (IF hasq THEN <<q>> ELSE <<>>)
            \o (IF xf = "none" THEN <<>> ELSE <<[r \in 1..n |-> FillCell(xf, r)]>>)
    IN  Frame(cols, n, cs)

\* a frame of n rows without a quantity-pattern column: product_id, date, a
\* column "notes" with the cells q, and a price column or none
ScanFrame(n, pf, q, xf) ==
    LET cols == <<"product_id", "date", "notes">>
                \o (IF xf = "none" THEN <<>> ELSE <<"price">>)
        cs == <<[r \in 1..n |-> FillCell(pf, r)], [r \in 1..n |-> FillCell("dates", r)], q>>
              \o (IF xf = "none" THEN <<>> ELSE <<[r \in 1..n |-> FillCell(xf, r)]>>)
    IN  Frame(cols, n, cs)

GateFills ==
    [product |-> {"none", "ids", "numids", "nulls"},
     time    |-> {"none", "dates", "samedate", "olddates"},
     price   |-> {"none", "nums"}]

InitGate ==
    /\ uploaded_file = NoFile
    /\ PDF_SUPPORT = TRUE
    /\ \/ \E n \in 0..MaxGateRows :
              \E pf \in GateFills.product, tf \in GateFills.time, xf \in GateFills.price :
                  \/ \E q \in [1..n -> QuantityCells] :
                         df = GateFrame(n, pf, tf, TRUE, q, xf)
                  \/ /\ df = GateFrame(n, pf, tf, FALSE, <<>>, xf)
                     /\ Len(df.columns) > 0
       \/ \E n \in 2..MaxScanRows :
              \E pf \in {"ids", "numids"}, xf \in GateFills.price, q \in [1..n -> QuantityCells] :
                  df = ScanFrame(n, pf, q, xf)
    /\ pc = "gate"
    /\ Idle

CheckSufficiency ==
    /\ pc = "gate"
    /\ stage2_result' = check_sufficiency(df)
    /\ calls' = Append(calls, "check_sufficiency")
    /\ pc' = "checked"
    /\ UNCHANGED <<uploaded_file, PDF_SUPPORT, loop, engine, stage1_result, path_result, df,
                   stage3_result, role_mapping, temp_dir, sales_df, products_df, edit>>

HasQuantityColumn(d) == \E i \in 1..Len(d.columns) : d.columns[i] = "quantity"

\* the frame with cell r of its quantity column set to the number v
ReplaceQuantity(d, r, v) ==
    [d EXCEPT !.cells[ColumnIndex(d, "quantity")][r] = Num(v)]

\* the frame with one more row: v in the quantity column; the other cells
\* are empty (src = 0) or those of row src
AppendQuantityRow(d, v, src) ==
    [d EXCEPT !.nrows = d.nrows + 1,
              !.cells = [i \in 1..Len(d.columns) |->
                            Append(d.cells[i],
                                   IF d.columns[i] = "quantity" THEN Num(v)
                                   ELSE IF src = 0 THEN Null
                                   ELSE d.cells[i][src])]]

\* a zero or missing cell of the quantity column becomes a non-zero number,
\* and the frame is checked again
ReplaceCell ==
    /\ pc = "checked"
    /\ HasQuantityColumn(df)
    /\ \E r \in 1..df.nrows, v \in {5, 0 - 5} :
          /\ df.cells[ColumnIndex(df, "quantity")][r] \in {Null, Num(0)}
          /\ df' = ReplaceQuantity(df, r, v)
          /\ edit' = [kind |-> "replace", value |-> v, before |-> stage2_result.status]
    /\ stage2_result' = check_sufficiency(df')
    /\ calls' = Append(calls, "check_sufficiency")
    /\ UNCHANGED <<uploaded_file, PDF_SUPPORT, loop, engine, pc, stage1_result, path_result,
                   stage3_result, role_mapping, temp_dir, sales_df, products_df>>

\* a row with a non-zero quantity is appended, and the frame is checked again
AppendRow ==
    /\ pc = "checked"
    /\ HasQuantityColumn(df)
    /\ df.nrows < MaxGateRows
    /\ \E v \in {5, 0 - 5}, src \in 0..df.nrows :
          /\ df' = AppendQuantityRow(df, v, src)
          /\ edit' = [kind |-> "append", value |-> v, before |-> stage2_result.status]
    /\ stage2_result' = check_sufficiency(df')
    /\ calls' = Append(calls, "check_sufficiency")
    /\ UNCHANGED <<uploaded_file, PDF_SUPPORT, loop, engine, pc, stage1_result, path_result,
                   stage3_result, role_mapping, temp_dir, sales_df, products_df>>

NextGate == CheckSufficiency \/ ReplaceCell \/ AppendRow

SpecGate == InitGate /\ [][NextGate]_vars

(***************************************************************************)
(* run_stage3_analysis on a frame (test_structure_inference.py).           *)
(***************************************************************************)
Permutations3 == {f \in [1..3 -> 1..3] : \A i, j \in 1..3 : f[i] = f[j] => i = j}

\* a frame with exactly the columns product_id, date, quantity, in the order
\* f, with the cells p, t, q
RoundTripFrame(f, n, p, t, q) ==
    LET labels == <<"product_id", "date", "quantity">>
    IN  Frame([i \in 1..3 |-> labels[f[i]]], n, [i \in 1..3 |-> <<p, t, q>>[f[i]]])

\* column labels of tables handed to infer_column_roles: labels matching one
\* role, labels matching two ("date sold", "item sold") and one matching none
RoleLabels ==
    <<"product_id", "item sold", "date", "date sold", "units_sold", "quantity",
      "qty", "stock", "notes">>

\* a two-row frame with the labels RoleLabels[s[1]], ..., RoleLabels[s[k]]:
\* identifiers under the product labels, dates under the date labels, numbers
\* elsewhere
RoleFrame(s) ==
    LET k == Len(s)
        fill(l) == IF l \in {"product_id", "item sold"} THEN "ids"
                   ELSE IF l \in {"date", "date sold"} THEN "dates"
                   ELSE "nums"
    IN  Frame([i \in 1..k |-> RoleLabels[s[i]]], 2,
              [i \in 1..k |-> [r \in 1..2 |-> FillCell(fill(RoleLabels[s[i]]), r)]])

\* a frame of n rows with the columns product_id, date, quantity: a fresh
\* identifier in every row (textual, or numeric), except that row z has none
\* and, with dup, the last row repeats the first identifier
BatchFrame(n, z, numeric, dup) ==
    LET id(r) == IF numeric THEN Num(100 + r) ELSE Text("p" \o ToString(r))
        ids == [r \in 1..n |->
                   IF r = z THEN Null
                   ELSE IF dup /\ r = n THEN id(1)
                   ELSE id(r)]
    IN  Frame(<<"product_id", "date", "quantity">>, n,
              <<ids, [r \in 1..n |-> Date(202400 + r)], [r \in 1..n |-> Num(r % 4)]>>)

\* a frame of n rows of the two products p1 (odd rows) and p2 (even rows)
\* with the columns product_id, date, units_sold, a column labelled sl with
\* the cells st and the column expiry_date with the cells ex
SnapshotFrame(n, sl, st, ex) ==
    Frame(<<"product_id", "date", "units_sold", sl, "expiry_date">>, n,
          <<[r \in 1..n |-> FillCell("ids", r)], [r \in 1..n |-> FillCell("dates", r)],
            [r \in 1..n |-> FillCell("nums", r)], st, ex>>)

InitInfer ==
    /\ uploaded_file = NoFile
    /\ PDF_SUPPORT = TRUE
    /\ \/ df \in SheetFrames
       \/ \E n \in 0..MaxSalesRows :
             \E f \in Permutations3,
                p \in [1..n -> {Text("p1"), Null}],
                t \in [1..n -> {Date(202401), Date(202402), Text("widget")}],
                q \in [1..n -> {Num(5), Text("widget"), Null}] :
                    df = RoundTripFrame(f, n, p, t, q)
       \/ \E k \in 1..MaxRoleCols :
             \E s \in [1..k -> 1..Len(RoleLabels)] :
                 /\ \A i, j \in 1..k : s[i] = s[j] => i = j
                 /\ df = RoleFrame(s)
       \/ \E n \in 1..MaxBatch :
             \E z \in 0..n, numeric \in BOOLEAN, dup \in BOOLEAN :
                 df = BatchFrame(n, z, numeric, dup)
       \/ \E n \in 2..MaxSnapRows :
             \E sl \in {"stock", "quantity", "notes"},
                c \in [1..n -> {<<Null, Null>>, <<Num(2), Num(1)>>, <<Num(6), Num(9)>>,
                                <<Num(2), Null>>, <<Null, Num(9)>>}] :
                 df = SnapshotFrame(n, sl, [r \in 1..n |-> c[r][1]],
                                    [r \in 1..n |-> c[r][2]])
    /\ pc = "stage3"
    /\ Idle

RunStage3 ==
    /\ pc = "stage3"
    /\ EnterStage3

NextInfer == RunStage3 \/ Stage3Prepare \/ Stage3Analyze \/ Stage3Raise

SpecInfer == InitInfer /\ [][NextInfer]_vars

(***************************************************************************)
(* run_stage3_analysis with the analyses of the loop taken in any order,   *)
(* at most MaxInFlight of them between their first step (forecast_demand)  *)
(* and their last.                                                         *)
(***************************************************************************)
InitLoop ==
    /\ uploaded_file = NoFile
    /\ PDF_SUPPORT = TRUE
    /\ \E n \in 2..MaxLoopRows :
          \E z \in 0..n, numeric \in BOOLEAN, dup \in BOOLEAN :
              df = BatchFrame(n, z, numeric, dup)
    /\ pc = "stage3"
    /\ Idle

\* the products of the loop, product_ids[:10]
FirstProducts == Head5(products_df, MaxProducts)

\* variant: an analysis replaces the list of results with its own
collected_overwriting(results, result) ==
    IF result.success THEN <<result>> ELSE results

\* run_stage3_analysis 324-326: a successful result is appended
collected(results, result) ==
    IF result.success THEN Append(results, result) ELSE results

\* run_analysis step 1 for the product at position j
StartAnalysis ==
    /\ pc = "stage3_analyze"
    /\ Cardinality(DOMAIN loop.forecast \ loop.done) < MaxInFlight
    /\ \E j \in (1..Len(FirstProducts)) \ DOMAIN loop.forecast :
          loop' = [loop EXCEPT !.forecast =
                      @ @@ (j :> forecast_demand(sales_df, FirstProducts[j].product_id,
                                                 loop.ties))]
    /\ UNCHANGED <<uploaded_file, PDF_SUPPORT, engine, pc, stage1_result, path_result,
                   df, stage2_result, stage3_result, role_mapping, temp_dir, sales_df,
                   products_df, calls, edit>>

\* run_analysis steps 2 to 4 for a product whose forecast is made, and the
\* collection of its result
FinishAnalysis ==
    /\ pc = "stage3_analyze"
    /\ \E j \in DOMAIN loop.forecast \ loop.done :
          LET result == analyze_after_forecast(FirstProducts[j].product_id,
                            loop.forecast[j], products_df, sales_df, loop.ties)
          IN  loop' = [loop EXCEPT !.done = @ \cup {j},
                                   !.results = collected(@, result)]
    /\ UNCHANGED <<uploaded_file, PDF_SUPPORT, engine, pc, stage1_result, path_result,
                   df, stage2_result, stage3_result, role_mapping, temp_dir, sales_df,
                   products_df, calls, edit>>

\* run_stage3_analysis 328-356 once every product of the loop is done
Stage3Collect ==
    /\ pc = "stage3_analyze"
    /\ loop.done = 1..Len(FirstProducts)
    /\ stage3_result' = loop_result(loop.results, products_df)
    /\ temp_dir' = rmtree(temp_dir)
    /\ pc' = "stage3_done"
    /\ UNCHANGED <<uploaded_file, PDF_SUPPORT, loop, engine, stage1_result, path_result, df,
                   stage2_result, role_mapping, sales_df, products_df, calls, edit>>

NextLoop ==
    \/ RunStage3
    \/ Stage3Prepare
    \/ StartAnalysis
    \/ FinishAnalysis
    \/ Stage3Collect

SpecLoop == InitLoop /\ [][NextLoop]_vars

(***************************************************************************)
(* make_decision on one product's figures.                                 *)
(***************************************************************************)
\* days_to_stockout as analyze_expiry_risk reports it: None, or a number of
\* days with one decimal; the halves up to past the largest lead_time + 2
StockoutValues ==
    {NoStockout} \cup {Stockout(5 * k) : k \in 0..(2 * (MaxLead + 2) + 1)}

InitDecide ==
    /\ uploaded_file = NoFile
    /\ PDF_SUPPORT = TRUE
    /\ df = NoFrame
    /\ pc = "decide"
    /\ stage1_result = NoResult
    /\ path_result = NoResult
    /\ stage2_result = NoResult2
    /\ stage3_result = NoResult3
    /\ role_mapping = NoRoles
    /\ temp_dir = "none"
    /\ sales_df = NoSales
    /\ products_df = <<>>
    /\ loop = NoLoop
    /\ calls = <<>>
    /\ edit = NoEdit
    /\ \E risk_level \in {"LOW", "MEDIUM", "HIGH"},
          days_to_stockout \in StockoutValues,
          days_to_expiry \in {1, DefaultExpiry},
          current_stock \in (0 - 1)..MaxStock,
          excess_units \in 0..MaxExcess,
          total_demand \in 0..MaxDemand,
          lead_time \in 1..MaxLead,
          min_order \in 0..MaxMinOrder :
            engine = [demand_data |-> [total_demand |-> total_demand],
                      risk_data |-> [risk_level |-> risk_level,
                                     days_to_expiry |-> days_to_expiry,
                                     days_to_stockout |-> days_to_stockout,
                                     current_stock |-> current_stock,
                                     excess_units |-> excess_units],
                      supplier_info |-> [lead_time |-> lead_time,
                                         min_order |-> min_order],
                      decision_data |-> NoDecision]

MakeDecision ==
    /\ pc = "decide"
    /\ engine' = [engine EXCEPT !.decision_data =
                      make_decision(engine.demand_data, engine.risk_data,
                                    engine.supplier_info)]
    /\ calls' = Append(calls, "make_decision")
    /\ pc' = "decided"
    /\ UNCHANGED <<uploaded_file, PDF_SUPPORT, loop, stage1_result, path_result, df,
                   stage2_result, stage3_result, role_mapping, temp_dir, sales_df,
                   products_df, edit>>

NextDecide == MakeDecision

SpecDecide == InitDecide /\ [][NextDecide]_vars

(***************************************************************************)
(* run_analysis on one product: the staged tables hold one product record  *)
(* and its sales history, the suppliers table holds any terms.             *)
(***************************************************************************)
HistoryQuantities == {0 - 1, 0, 2}

\* the sales table of product pid with the quantities q, its rows not in
\* date order
HistoryTable(pid, q) ==
    [j \in 1..Len(q) |->
        [idx |-> j - 1, product_id |-> pid, date |-> 202401 + ((3 * j) % 7),
         year |-> 2024, quantity_sold |-> q[j]]]

\* lead_time_days and min_order_qty of the product's supplier record, or the
\* defaults when it has none
SupplierTerms ==
    {[lead_time |-> DefaultLeadTime, min_order |-> DefaultMinOrder]}
    \cup {[lead_time |-> l, min_order |-> m] : l \in {1, MaxLead}, m \in {0, MaxMinOrder}}

InitEngine ==
    /\ uploaded_file = NoFile
    /\ PDF_SUPPORT = TRUE
    /\ df = NoFrame
    /\ pc = "engine"
    /\ stage1_result = NoResult
    /\ path_result = NoResult
    /\ stage2_result = NoResult2
    /\ stage3_result = NoResult3
    /\ role_mapping = NoRoles
    /\ temp_dir = "none"
    /\ calls = <<>>
    /\ edit = NoEdit
    /\ engine = [NoEngine EXCEPT !.product_id = Text("p1")]
    /\ \E ties \in TieOutcomes : loop = [NoLoop EXCEPT !.ties = ties]
    /\ \E current_stock \in (0 - 1)..MaxStock, days_to_expiry \in 0..MaxExpiry \cup {DefaultExpiry} :
          products_df = <<[product_id |-> Text("p1"), current_stock |-> current_stock,
                           days_to_expiry |-> days_to_expiry]>>
    /\ \E n \in 0..MaxHistory :
          \E q \in [1..n -> HistoryQuantities] : sales_df = HistoryTable(Text("p1"), q)

\* run_analysis step 1
ForecastDemand ==
    /\ pc = "engine"
    /\ engine' = [engine EXCEPT
                      !.demand_data = forecast_demand(sales_df, engine.product_id, loop.ties),
                      !.trend = calculate_trend(product_sales(sales_df, engine.product_id))]
    /\ calls' = Append(calls, "forecast_demand")
    /\ pc' = "forecast_done"
    /\ UNCHANGED <<uploaded_file, PDF_SUPPORT, loop, stage1_result, path_result, df,
                   stage2_result, stage3_result, role_mapping, temp_dir, sales_df,
                   products_df, edit>>

\* run_analysis step 2; daily_velocity and days_to_stockout are the locals
\* of analyze_expiry_risk
AnalyzeExpiryRisk ==
    /\ pc = "forecast_done"
    /\ LET risk_data == analyze_expiry_risk(products_df, sales_df, engine.product_id, loop.ties)
           v == Mean(product_sales(sales_df, engine.product_id))
       IN  /\ engine' = [engine EXCEPT
                             !.risk_data = risk_data,
                             !.daily_velocity = v,
                             !.days_to_stockout =
                                 estimate_days_to_stockout(risk_data.current_stock, v, loop.ties)]
           /\ pc' = IF risk_data.raised THEN "raised" ELSE "risk_done"
    /\ calls' = Append(calls, "analyze_expiry_risk")
    /\ UNCHANGED <<uploaded_file, PDF_SUPPORT, loop, stage1_result, path_result, df,
                   stage2_result, stage3_result, role_mapping, temp_dir, sales_df,
                   products_df, edit>>

\* run_analysis step 3, on any suppliers table
GetSupplierInfo ==
    /\ pc = "risk_done"
    /\ \E terms \in SupplierTerms : engine' = [engine EXCEPT !.supplier_info = terms]
    /\ calls' = Append(calls, "get_supplier_info")
    /\ pc' = "decide"
    /\ UNCHANGED <<uploaded_file, PDF_SUPPORT, loop, stage1_result, path_result, df,
                   stage2_result, stage3_result, role_mapping, temp_dir, sales_df,
                   products_df, edit>>

\* steps 1 to 3, then step 4 (MakeDecision)
NextEngine == ForecastDemand \/ AnalyzeExpiryRisk \/ GetSupplierInfo \/ MakeDecision

SpecEngine == InitEngine /\ [][NextEngine]_vars

(***************************************************************************)
(* Properties.                                                             *)
(***************************************************************************)
Called(name) == \E i \in DOMAIN calls : calls[i] = name

\* C1: the pipeline is linear and short-circuiting: check_sufficiency is
\* invoked only after stage 1 returned valid, run_stage3_analysis only after
\* stage 2 returned sufficient; a file rejected at a stage reaches no later
\* stage, and a PDF that passes stage 1 reaches neither stage 2 nor stage 3.
C1_LinearShortCircuit ==
    /\ \E n \in 0..3 :
          calls = SubSeq(<<"validate_uploaded_file", "check_sufficiency",
                           "run_stage3_analysis">>, 1, n)
    /\ Called("check_sufficiency") => stage1_result.status = "valid"
    /\ Called("run_stage3_analysis") => stage2_result.status = "sufficient"
    /\ stage1_result.status = "invalid" =>
          ~Called("check_sufficiency") /\ ~Called("run_stage3_analysis")
    /\ stage2_result.status = "insufficient" => ~Called("run_stage3_analysis")
    /\ stage1_result.file_type = "pdf" =>
          ~Called("check_sufficiency") /\ ~Called("run_stage3_analysis")
    /\ pc = "done" /\ stage1_result.status = "valid"
          /\ stage1_result.file_type = "excel" => Called("check_sufficiency")

C1_Witness ==
    /\ pc = "done"
    /\ stage1_result.status = "valid"
    /\ stage1_result.file_type = "pdf"
    /\ calls = <<"validate_uploaded_file">>

\* the content both entry points classify was extracted from the file
Extracted(f, pdf_support) ==
    /\ f # NoFile
    /\ f.ext \in SUPPORTED_EXTENSIONS
    /\ IF FileType(f.ext) = "excel"
       THEN f.content = "table" /\ ~IsEmptyFrame(f.table)
       ELSE pdf_support /\ f.content = "text" /\ f.text # <<>>

\* the column labels and the sampled cell text, or the page text
ContentTokens(f) ==
    IF FileType(f.ext) = "excel" THEN Range(TextContent(f.table)) ELSE Range(f.text)

Disqualified(f) == ContentTokens(f) \cap REJECTION_PATTERNS # {}

GroupPresent(f, g) == ContentTokens(f) \cap SIGNAL_PATTERNS[g] # {}

GroupCount(f) == Cardinality({g \in Range(SignalGroups) : GroupPresent(f, g)})

\* a column whose label matches a quantity pattern holds a number
NumericQuantityColumn(t) ==
    \E i \in 1..Len(t.columns) :
        /\ Lower(t.columns[i]) \in SIGNAL_PATTERNS["quantity"]
        /\ \E r \in 1..t.nrows : t.cells[i][r].k = "num"

\* more than 30% of the values of some column are numbers
MostlyNumericColumn(t) ==
    \E i \in 1..Len(t.columns) :
        10 * Cardinality({r \in 1..t.nrows : t.cells[i][r].k = "num"}) > 3 * t.nrows

NumericEvidence(f) ==
    IF FileType(f.ext) = "excel"
    THEN NumericQuantityColumn(f.table) \/ MostlyNumericColumn(f.table)
    ELSE SumNumberCount(f.text) >= 3

\* the results computed so far for the file, by either entry point
Stage1Results ==
    (IF stage1_result # NoResult /\ Extracted(uploaded_file, PDF_SUPPORT)
     THEN {stage1_result} ELSE {})
    \cup (IF path_result # NoResult /\ Extracted(uploaded_file, PDF_SUPPORT)
             /\ uploaded_file.exists
          THEN {path_result} ELSE {})

\* C2: a disqualifying HR/payroll/personnel pattern anywhere in the column
\* labels or the sampled cell text makes validate_file and
\* validate_uploaded_file return invalid with the wrong-domain reason,
\* whatever signal groups and numeric evidence are present.
C2_DisqualifyingFirst ==
    \A R \in Stage1Results :
        Disqualified(uploaded_file) => R = Invalid(MsgWrongDomain)

C2_Witness ==
    /\ stage1_result # NoResult /\ path_result # NoResult
    /\ Cardinality(Stage1Results) > 0
    /\ Disqualified(uploaded_file)
    /\ GroupCount(uploaded_file) = 3
    /\ NumericEvidence(uploaded_file)
    /\ FileType(uploaded_file.ext) = "excel"
    /\ NumericQuantityColumn(uploaded_file.table)

\* a table with a price column and no quantity column: no column label and no
\* sampled text matches a quantity pattern
PriceOnly(f) ==
    /\ FileType(f.ext) = "excel"
    /\ \E i \in 1..Len(f.table.columns) : Lower(f.table.columns[i]) \in PRICE_PATTERNS
    /\ ~GroupPresent(f, "quantity")

GroupsNamed(reason) ==
    CASE reason = MsgNoQuantityNoTime -> {"quantity", "time"}
      [] reason = MsgNoQuantity -> {"quantity"}
      [] reason = MsgNoTime -> {"time"}
      [] reason = MsgNoProduct -> {"product"}
      [] OTHER -> {}

C5_ConfidenceTier ==
    \A R \in Stage1Results :
        R.status = "valid" =>
            R.confidence =
                IF /\ GroupCount(uploaded_file) = 3
                   /\ FileType(uploaded_file.ext) = "excel"
                   /\ NumericQuantityColumn(uploaded_file.table)
                THEN "high" ELSE "medium"

\* C5 amended: an accepting result is high if all three groups are present
\* and the table has a numeric column (a quantity-labelled column holding a
\* number or, failing that, any column more than 30% numeric), medium
\* otherwise; it is never low, and never high for a text-only container.
C5_ConfidenceTierAmended ==
    \A R \in Stage1Results :
        R.status = "valid" =>
            /\ R.confidence =
                  IF /\ GroupCount(uploaded_file) = 3
                     /\ FileType(uploaded_file.ext) = "excel"
                     /\ \/ NumericQuantityColumn(uploaded_file.table)
                        \/ MostlyNumericColumn(uploaded_file.table)
                  THEN "high" ELSE "medium"
            /\ R.confidence # "low"
            /\ R.file_type = "pdf" => R.confidence # "high"

C5_Witness ==
    /\ stage1_result \in Stage1Results
    /\ stage1_result.status = "valid"
    /\ stage1_result.confidence = "high"
    /\ ~NumericQuantityColumn(uploaded_file.table)

\* the reason of the first failing check, the checks taken in the order
\* row volume, product identifiers, quantity meaning, time context, logical
\* consistency ("" when none fails)
FirstFailure(d) ==
    LET quantity == check_quantity_meaning(d)
        outcomes == <<check_data_volume(d), check_product_identifiers(d), quantity,
                      check_time_context(d),
                      check_logical_consistency(d, quantity.cols)>>
        failing == {i \in 1..5 : ~outcomes[i].passed}
    IN  IF failing = {} THEN ""
        ELSE outcomes[CHOOSE i \in failing : \A j \in failing : i <= j].message

QuantityColumn(d) == d.cells[ColumnIndex(d, "quantity")]

\* at least 2 rows, a product column and a date column that pass their own
\* checks (at least 2 distinct dates, all within 1900..2100), and a quantity
\* column
ProductAndDatePass(d) ==
    /\ d.nrows >= 2
    /\ HasQuantityColumn(d)
    /\ check_product_identifiers(d).passed
    /\ check_time_context(d).passed
    /\ \A i \in 1..Len(d.columns) :
          Lower(d.columns[i]) \in TIME_PATTERNS => ~DatesOutOfRange(d.cells[i])

AllZero(col) == \A r \in 1..Len(col) : col[r] \in {Null, Num(0)}

MostlyNegative(col) ==
    2 * Cardinality({r \in 1..Len(col) : col[r].k = "num" /\ col[r].n < 0}) > Len(col)

\* C7 as stated: with product and date columns that pass held fixed, an
\* all-zero quantity column is insufficient and the same table with at least
\* one quantity value changed to non-zero is sufficient.
C7_ZeroToNonZero ==
    stage2_result # NoResult2 /\ ProductAndDatePass(df) =>
        IF AllZero(QuantityColumn(df))
        THEN stage2_result.status = "insufficient"
        ELSE stage2_result.status = "sufficient"

\* C7 amended: with product and date columns that pass held fixed, an
\* all-zero quantity column is insufficient, and the same table with at least
\* one quantity value changed to non-zero is sufficient provided that no more
\* than half of the rows hold a negative quantity.
C7_ZeroToNonZeroAmended ==
    stage2_result # NoResult2 /\ ProductAndDatePass(df) =>
        IF AllZero(QuantityColumn(df))
        THEN stage2_result = Insufficient(MsgQuantityNoData)
        ELSE IF MostlyNegative(QuantityColumn(df))
        THEN stage2_result = Insufficient(MsgNegative)
        ELSE stage2_result.status = "sufficient"

C7_Witness ==
    /\ ProductAndDatePass(df)
    /\ edit.kind = "replace"
    /\ edit.before = "insufficient"
    /\ Cardinality({r \in 1..df.nrows : QuantityColumn(df)[r] # Num(0)}) = 1
    /\ stage2_result.status = "sufficient"

\* C8 as stated: a table that passes the gate still passes after non-zero
\* values are added to its quantity column (a zero or missing cell replaced
\* by a non-zero number, or a row with a non-zero quantity appended).
C8_GateMonotone ==
    edit.kind \in {"replace", "append"} /\ edit.before = "sufficient" =>
        stage2_result.status = "sufficient"

\* C8 amended: a table that passes the gate still passes after positive
\* values are added to its quantity column (a zero or missing cell replaced
\* by a positive number, or a row with a positive quantity appended).
C8_GateMonotoneAmended ==
    edit.kind \in {"replace", "append"} /\ edit.before = "sufficient"
        /\ edit.value > 0 =>
            stage2_result.status = "sufficient"

C8_Witness ==
    /\ edit.kind = "append"
    /\ edit.before = "sufficient"
    /\ edit.value > 0
    /\ stage2_result.status = "sufficient"
    /\ \E r \in 1..df.nrows : QuantityColumn(df)[r] = Num(0 - 5)

\* run_stage3_analysis went past its empty-frame return
RolesInferred == Called("run_stage3_analysis") /\ ~IsEmptyFrame(df)

\* no part of dataset construction has run
ConstructionNotStarted ==
    /\ temp_dir = "none"
    /\ sales_df = NoSales
    /\ products_df = <<>>

\* C9: required-role validation fails unless product_id, one of quantity /
\* quantity_sold / current_stock, and date are bound; the roles are examined
\* in that order, each failure has its own message, and run_stage3_analysis
\* then returns an error with that message without starting dataset
\* construction.
C9_RequiredRoles ==
    /\ Cardinality({MsgRoleProduct, MsgRoleQuantity, MsgRoleDate}) = 3
    /\ RolesInferred =>
          IF "product_id" \notin DOMAIN role_mapping
          THEN stage3_result = Error3(MsgRoleProduct) /\ ConstructionNotStarted
          ELSE IF DOMAIN role_mapping
                      \cap {"quantity", "quantity_sold", "current_stock"} = {}
          THEN stage3_result = Error3(MsgRoleQuantity) /\ ConstructionNotStarted
          ELSE IF "date" \notin DOMAIN role_mapping
          THEN stage3_result = Error3(MsgRoleDate) /\ ConstructionNotStarted
          ELSE /\ temp_dir # "none"
               /\ stage3_result.reason \notin {MsgRoleProduct, MsgRoleQuantity, MsgRoleDate}

C9_Witness ==
    /\ RolesInferred
    /\ "product_id" \notin DOMAIN role_mapping
    /\ "date" \notin DOMAIN role_mapping
    /\ "current_stock" \in DOMAIN role_mapping
    /\ stage3_result = Error3(MsgRoleProduct)
    /\ ConstructionNotStarted

\* a frame with exactly the columns product_id, date, quantity
ExactlyThree(d) ==
    /\ Len(d.columns) = 3
    /\ Range(d.columns) = {"product_id", "date", "quantity"}

\* prepare_sales_csv has returned for the frame
SalesPrepared == RolesInferred /\ pc \in {"stage3_analyze", "stage3_done"}
                     /\ temp_dir # "none"
                     /\ stage3_result.reason # MsgAnalysisError

StandardRoles ==
    ("product_id" :> "product_id") @@ ("date" :> "date")
        @@ ("quantity" :> "quantity") @@ ("quantity_sold" :> "quantity")

\* the sales table holds exactly the rows of d in keep, with their values
SalesRowsAre(d, keep) ==
    /\ sales_df # NoSales
    /\ {sales_df[j].idx : j \in 1..Len(sales_df)} = keep
    /\ Len(sales_df) = Cardinality(keep)
    /\ \A j \in 1..Len(sales_df) :
          LET r == sales_df[j].idx
          IN  /\ sales_df[j].product_id = d.cells[ColumnIndex(d, "product_id")][r]
              /\ sales_df[j].date = d.cells[ColumnIndex(d, "date")][r].n
              /\ sales_df[j].quantity_sold = d.cells[ColumnIndex(d, "quantity")][r].n

\* C10 as stated: for a table with exactly the columns product_id, date,
\* quantity the roles product_id, date, quantity (and its alias quantity_sold)
\* are bound to them, and the sales table holds exactly the input rows with a
\* valid date and a numeric quantity.
C10_RoundTrip ==
    ExactlyThree(df) =>
        /\ RolesInferred => role_mapping = StandardRoles
        /\ SalesPrepared =>
              SalesRowsAre(df, {r \in 1..df.nrows :
                  /\ df.cells[ColumnIndex(df, "date")][r].k = "date"
                  /\ df.cells[ColumnIndex(df, "quantity")][r].k = "num"})

\* C10 amended: the roles are bound as stated, and the sales table holds
\* exactly the input rows with a non-missing product_id, a valid date and a
\* numeric quantity.
C10_RoundTripAmended ==
    ExactlyThree(df) =>
        /\ RolesInferred => role_mapping = StandardRoles
        /\ SalesPrepared =>
              SalesRowsAre(df, {r \in 1..df.nrows :
                  /\ df.cells[ColumnIndex(df, "product_id")][r] # Null
                  /\ df.cells[ColumnIndex(df, "date")][r].k = "date"
                  /\ df.cells[ColumnIndex(df, "quantity")][r].k = "num"})

C10_Witness ==
    /\ ExactlyThree(df)
    /\ SalesPrepared
    /\ df.columns # <<"product_id", "date", "quantity">>
    /\ df.nrows = 2
    /\ Len(sales_df) = 1
    /\ \A r \in 1..2 : df.cells[ColumnIndex(df, "product_id")][r] # Null

\* the columns of the frame whose label matches a pattern of the role
Matches(role) == {c \in Range(df.columns) : match_column_to_role(c, role)}

\* no column is bound to two roles, except quantity_sold and quantity
OneColumnPerRole ==
    /\ \A r \in DOMAIN role_mapping : role_mapping[r] \in Range(df.columns)
    /\ \A r1, r2 \in DOMAIN role_mapping :
          (r1 # r2 /\ role_mapping[r1] = role_mapping[r2])
              => {r1, r2} = {"quantity_sold", "quantity"}

\* quantity_sold and quantity name the same column
Aliased ==
    /\ {"quantity_sold", "quantity"} \subseteq DOMAIN role_mapping
    /\ role_mapping["quantity_sold"] = role_mapping["quantity"]

\* the columns bound to the roles that precede quantity_sold
ConsumedEarlier ==
    {role_mapping[r] : r \in {"product_id", "date"} \cap DOMAIN role_mapping}

\* C11 (as stated): each role maps to one column and no column is bound to
\* two roles, except that quantity_sold and quantity name the same column
\* exactly when no column matched the quantity_sold patterns and some column
\* was bound to quantity.
C11_OneColumnPerRole ==
    RolesInferred =>
        /\ OneColumnPerRole
        /\ Aliased <=> (Matches("quantity_sold") = {}
                          /\ "quantity" \in DOMAIN role_mapping)

\* C11 (amended): each role maps to one column and no column is bound to
\* two roles, except that quantity_sold and quantity name the same column
\* exactly when every column matching the quantity_sold patterns was already
\* bound to product_id or date and some column was bound to quantity.
C11_OneColumnPerRoleAmended ==
    RolesInferred =>
        /\ OneColumnPerRole
        /\ Aliased <=> (Matches("quantity_sold") \subseteq ConsumedEarlier
                          /\ "quantity" \in DOMAIN role_mapping)

\* a column matching the quantity_sold patterns went to an earlier role and
\* quantity_sold names the quantity column
C11_Witness ==
    /\ RolesInferred
    /\ Aliased
    /\ Matches("quantity_sold") # {}

\* the position of a role in the order product_id, date, quantity_sold,
\* quantity, current_stock, expiry, product_name, price
RoleRank(r) ==
    CASE r = "product_id" -> 1
      [] r = "date" -> 2
      [] r = "quantity_sold" -> 3
      [] r = "quantity" -> 4
      [] r = "current_stock" -> 5
      [] r = "expiry" -> 6
      [] r = "product_name" -> 7
      [] r = "price" -> 8

RoleNames ==
    {"product_id", "date", "quantity_sold", "quantity", "current_stock",
     "expiry", "product_name", "price"}

\* the role was bound to a column of its own (not by the quantity alias)
OwnColumn(r) ==
    /\ r \in DOMAIN role_mapping
    /\ ~(r = "quantity_sold" /\ "quantity" \in DOMAIN role_mapping)

\* the column was consumed by a role that precedes r
ConsumedBefore(c, r) ==
    \E q \in RoleNames :
        RoleRank(q) < RoleRank(r) /\ OwnColumn(q) /\ role_mapping[q] = c

\* a role with a column of its own has the first column, in table order,
\* that matches it and was not consumed by a preceding role
FirstUnusedMatchBound ==
    /\ DOMAIN role_mapping \subseteq RoleNames
    /\ \A r \in RoleNames :
          OwnColumn(r) =>
              /\ role_mapping[r] \in Matches(r)
              /\ ~ConsumedBefore(role_mapping[r], r)
              /\ \A i \in 1..(ColumnIndex(df, role_mapping[r]) - 1) :
                    df.columns[i] \in Matches(r) => ConsumedBefore(df.columns[i], r)

\* the role has a matching column that no preceding role consumed
HasUnusedMatch(r) == \E c \in Matches(r) : ~ConsumedBefore(c, r)

\* C20 (as stated): roles are examined in the order product_id, date,
\* quantity_sold, quantity, current_stock, expiry, product_name, price; each
\* is bound to the first not-yet-consumed matching column in table order, and
\* every role for which such a column exists ends up bound to it.
C20_FirstUnusedMatch ==
    RolesInferred =>
        /\ FirstUnusedMatchBound
        /\ \A r \in RoleNames : HasUnusedMatch(r) => OwnColumn(r)

\* C20 (amended): as stated, except that quantity is bound to a column of
\* its own only when quantity_sold found none: every role other than
\* quantity for which an unused matching column exists ends up bound to it,
\* and quantity does exactly when quantity_sold was not bound in the loop.
C20_FirstUnusedMatchAmended ==
    RolesInferred =>
        /\ FirstUnusedMatchBound
        /\ \A r \in RoleNames \ {"quantity"} : HasUnusedMatch(r) => OwnColumn(r)
        /\ "quantity" \in DOMAIN role_mapping
              <=> (HasUnusedMatch("quantity") /\ ~HasUnusedMatch("quantity_sold"))
        /\ "quantity" \in DOMAIN role_mapping => Aliased

\* quantity_sold took a column of its own and a free quantity column was
\* left unbound
C20_Witness ==
    /\ RolesInferred
    /\ OwnColumn("quantity_sold")
    /\ HasUnusedMatch("quantity")
    /\ "quantity" \notin DOMAIN role_mapping

\* both staged tables have been built
DatasetsBuilt ==
    /\ pc \in {"stage3_analyze", "stage3_done", "done"}
    /\ sales_df # NoSales
    /\ products_df # <<>>

\* C12: for every table that passed both gates, after dataset construction
\* every sales record has quantity_sold >= 0 and every product snapshot
\* record has current_stock >= 0.
C12_SignConstraints ==
    (stage1_pass /\ stage2_pass /\ DatasetsBuilt) =>
        /\ \A j \in 1..Len(sales_df) : sales_df[j].quantity_sold >= 0
        /\ \A j \in 1..Len(products_df) : products_df[j].current_stock >= 0

\* a table passed both gates and a staged record carries a negative number
C12_Witness ==
    /\ stage1_pass /\ stage2_pass /\ DatasetsBuilt
    /\ \E j \in 1..Len(sales_df) : sales_df[j].quantity_sold < 0
    /\ \E j \in 1..Len(products_df) : products_df[j].current_stock < 0

\* make_decision has returned for the figures in engine
Decided == pc = "decided"

HighWithExcess ==
    engine.risk_data.risk_level = "HIGH" /\ engine.risk_data.excess_units > 0

\* stockout is defined and at or before lead_time + 2 days
StockoutSoon ==
    /\ engine.risk_data.days_to_stockout.defined
    /\ engine.risk_data.days_to_stockout.tenths
           <= 10 * (engine.supplier_info.lead_time + 2)

\* current_stock is under 80% of the total forecast demand
StockBelowDemand ==
    100 * engine.risk_data.current_stock < 80 * engine.demand_data.total_demand

\* the rule that decides: 1 expiry, 2 stockout, 3 demand, 4 none
Rule ==
    IF HighWithExcess THEN 1
    ELSE IF StockoutSoon THEN 2
    ELSE IF StockBelowDemand THEN 3
    ELSE 4

\* C15: first matching rule wins: HIGH risk with excess units gives DISCOUNT
\* with quantity excess_units whatever days_to_stockout and lead time are;
\* otherwise a stockout defined and at or before lead_time + 2 days gives
\* REORDER; otherwise current_stock under 80% of total demand gives REORDER;
\* otherwise WAIT with quantity 0.
C15_RuleOrder ==
    Decided =>
        /\ HighWithExcess =>
              /\ engine.decision_data.decision = "DISCOUNT"
              /\ engine.decision_data.quantity = engine.risk_data.excess_units
        /\ (~HighWithExcess /\ StockoutSoon) =>
              engine.decision_data.decision = "REORDER"
        /\ (~HighWithExcess /\ ~StockoutSoon /\ StockBelowDemand) =>
              engine.decision_data.decision = "REORDER"
        /\ (~HighWithExcess /\ ~StockoutSoon /\ ~StockBelowDemand) =>
              /\ engine.decision_data.decision = "WAIT"
              /\ engine.decision_data.quantity = 0

\* rule 1 wins although rule 2 matches too
C15_Witness ==
    /\ Decided
    /\ HighWithExcess
    /\ StockoutSoon
    /\ engine.decision_data.decision = "DISCOUNT"

\* round(total_demand * 1.2) for the total of the call
TargetStock == (12 * engine.demand_data.total_demand + 5) \div 10

\* C16: every REORDER quantity is max(min_order_qty, round(total_demand*1.2)
\* - current_stock), except that it is 0, not min_order_qty, when
\* round(total_demand*1.2) <= current_stock; every decision of any kind
\* carries a quantity >= 0.
C16_ReorderQuantity ==
    Decided =>
        /\ engine.decision_data.quantity >= 0
        /\ engine.decision_data.decision = "REORDER" =>
              engine.decision_data.quantity =
                  IF TargetStock <= engine.risk_data.current_stock THEN 0
                  ELSE Max(engine.supplier_info.min_order,
                           TargetStock - engine.risk_data.current_stock)

\* a REORDER whose target is covered by the stock: quantity 0 although the
\* minimum order is positive
C16_Witness ==
    /\ Decided
    /\ engine.decision_data.decision = "REORDER"
    /\ TargetStock <= engine.risk_data.current_stock
    /\ engine.supplier_info.min_order > 0
    /\ engine.decision_data.quantity = 0

\* the names of the values formatted into the explanation
Referenced ==
    {engine.decision_data.explanation.args[i].name :
        i \in DOMAIN engine.decision_data.explanation.args}

\* the figures that trigger a rule
TriggerFigures == {"days_to_stockout", "lead_time", "excess_units", "total_demand"}

\* REORDER explained as urgent: days_to_stockout is neither None nor 0.0 and
\* is under lead_time + 1
Urgent ==
    /\ engine.decision_data.decision = "REORDER"
    /\ engine.risk_data.days_to_stockout.defined
    /\ engine.risk_data.days_to_stockout.tenths # 0
    /\ engine.risk_data.days_to_stockout.tenths
           < 10 * (engine.supplier_info.lead_time + 1)

Sequential ==
    loop_result(analytics_results(products_df, sales_df, loop.ties), products_df)

\* the loop has run to its end, its analyses taken in some order
LoopDone == pc = "stage3_done" /\ loop.done # {}

\* C18: the analyses of the loop taken in any order or interleaving give the
\* same set of per-product results and the same total_products and
\* analyzed_products as the sequential loop.
C18_OrderIndependent ==
    LoopDone =>
        /\ stage3_result.status = Sequential.status
        /\ Range(stage3_result.products) = Range(Sequential.products)
        /\ stage3_result.total_products = Sequential.total_products
        /\ stage3_result.analyzed_products = Sequential.analyzed_products

\* the analyses finished in an order other than the sequential one
C18_Witness ==
    /\ LoopDone
    /\ stage3_result.status = "ready"
    /\ stage3_result.products # Sequential.products

\* run_stage3_analysis has returned from the statements after the loop
LoopReturned ==
    /\ pc \in {"stage3_done", "done"}
    /\ loop.ties # "none"
    /\ stage3_result.reason # MsgAnalysisError

\* the distinct product identifiers of the table, in order of first
\* appearance (a missing cell is no identifier)
Identifiers ==
    LET col == df.cells[ColumnIndex(df, role_mapping["product_id"])]
        u == Unique(col)
        idx == SelectIdx([j \in 1..Len(u) |-> u[j].k # "null"], 1, Len(u))
    IN  [j \in 1..Len(idx) |-> Str(u[idx[j]])]

\* C13: for a table with n distinct product identifiers that reaches the
\* loop, only the first 10 identifiers are analysed, and a ready result
\* reports total_products = n, analyzed_products <= 10 and
\* analyzed_products = the number of entries of the products list.
C13_Cap ==
    (LoopReturned /\ stage3_result.status = "ready") =>
        /\ stage3_result.total_products = Len(Identifiers)
        /\ stage3_result.analyzed_products <= 10
        /\ stage3_result.analyzed_products = Len(stage3_result.products)
        /\ \A j \in 1..Len(stage3_result.products) :
              stage3_result.products[j].product_id \in Range(Head5(Identifiers, 10))

\* more than 10 products were staged and 10 were analysed
C13_Witness ==
    /\ LoopReturned
    /\ stage3_result.status = "ready"
    /\ stage3_result.total_products > 10
    /\ stage3_result.analyzed_products = 10

\* the positions of the loop whose analysis does not raise
Successful ==
    {j \in 1..Len(FirstProducts) :
        ~analyze_expiry_risk(products_df, sales_df, FirstProducts[j].product_id,
                             loop.ties).raised}

\* C14: a product whose analysis raises is dropped and the others are still
\* analysed; the result is an error if and only if no product succeeds, and
\* otherwise ready with exactly the successful products.
C14_FailureIsolation ==
    LoopReturned =>
        /\ stage3_result.status = "error" <=> Successful = {}
        /\ stage3_result.status = "error" => stage3_result.reason = MsgNoAnalytics
        /\ stage3_result.status = "ready" =>
              /\ Len(stage3_result.products) = Cardinality(Successful)
              /\ \A i \in 1..Len(stage3_result.products) :
                    stage3_result.products[i].success
              /\ \A j \in Successful :
                    \E i \in 1..Len(stage3_result.products) :
                        stage3_result.products[i] =
                            run_analytics_for_product(FirstProducts[j].product_id,
                                products_df, sales_df, loop.ties)

\* the first product of the loop fails (no identifier) and later ones are
\* in the ready result
C14_Witness ==
    /\ LoopReturned
    /\ stage3_result.status = "ready"
    /\ 1 \notin Successful
    /\ Successful # {}

QuantityPatternColumns(d) ==
    {i \in 1..Len(d.columns) : Lower(d.columns[i]) \in QUANTITY_PATTERNS}

\* a column qualifies when it holds a number that is not zero
Qualifies(col) == \E r \in 1..Len(col) : col[r].k = "num" /\ col[r].n # 0

\* some column other than a price column has more than 30% numeric values,
\* not all of them zero
ScanFinds(d) ==
    \E i \in 1..Len(d.columns) :
        /\ Lower(d.columns[i]) \notin PRICE_PATTERNS
        /\ 10 * Cardinality({r \in 1..d.nrows : d.cells[i][r].k = "num"}) > 3 * d.nrows
        /\ Qualifies(d.cells[i])

\* the table reached the quantity check, and no quantity-pattern column
\* qualifies
ReachedNoneQualifies(d) ==
    /\ stage2_result # NoResult2
    /\ d.nrows >= 2
    /\ check_product_identifiers(d).passed
    /\ \A i \in QuantityPatternColumns(d) : ~Qualifies(d.cells[i])

QuantityReasons == {MsgQuantityNoData, MsgPriceOnly, MsgNoQuantityInfo}

\* the quantity check passed: the result is not one of its reasons
QuantityPassed == stage2_result.reason \notin QuantityReasons

NumericTokens(t) ==
    CASE t \in {"7", "12.5"} -> {t}
      [] t = "2024-01-01" -> {"2024", "01"}
      [] OTHER -> {}

\* at least 30% of the values of some column are numbers
ShareNumericColumn(t) ==
    \E i \in 1..Len(t.columns) :
        10 * Cardinality({r \in 1..t.nrows : t.cells[i][r].k = "num"}) >= 3 * t.nrows

\* the numeric evidence as the claim states it
NumericEvidenceStated(f) ==
    IF FileType(f.ext) = "excel"
    THEN NumericQuantityColumn(f.table) \/ ShareNumericColumn(f.table)
    ELSE Cardinality(UNION {NumericTokens(f.text[i]) : i \in 1..Len(f.text)}) >= 3

\* the file reaches the numeric check: nothing disqualifies it and two
\* signal groups are detected
ReachesNumericCheck(f) == ~Disqualified(f) /\ GroupCount(f) >= 2

\* C22 as stated: a table passes the numeric check exactly if a column with
\* a quantity-signal label holds a number or some column has at least 30%
\* numeric values (exactly 30% is enough); a text-only container passes
\* exactly if its text holds at least three distinct numeric tokens.
C22_NumericEvidence ==
    \A R \in Stage1Results :
        ReachesNumericCheck(uploaded_file) =>
            (R.status = "valid" <=> NumericEvidenceStated(uploaded_file))

\* C22 amended: a table passes the numeric check exactly if a column with a
\* quantity-signal label holds a number or some column has more than 30%
\* numeric values (exactly 30% is not enough); a text-only container passes
\* exactly if its text holds at least three numeric tokens, repetitions
\* counted.
C22_NumericEvidenceAmended ==
    \A R \in Stage1Results :
        ReachesNumericCheck(uploaded_file) =>
            IF NumericEvidence(uploaded_file)
            THEN R.status = "valid"
            ELSE R = Invalid(MsgNoNumeric)

\* a sheet with exactly 30% numeric values in its only numeric column was
\* rejected for the lack of numeric data
C22_Witness ==
    /\ stage1_result \in Stage1Results
    /\ ReachesNumericCheck(uploaded_file)
    /\ uploaded_file.content = "table"
    /\ ShareNumericColumn(uploaded_file.table)
    /\ stage1_result = Invalid(MsgNoNumeric)

\* the columns the quantity check accepts: the qualifying quantity-pattern
\* columns, or without any quantity-pattern column the columns of the scan
AcceptedQuantityColumns(d) ==
    IF QuantityPatternColumns(d) # {}
    THEN {i \in QuantityPatternColumns(d) : Qualifies(d.cells[i])}
    ELSE {i \in 1..Len(d.columns) :
             /\ Lower(d.columns[i]) \notin PRICE_PATTERNS
             /\ 10 * Cardinality({r \in 1..d.nrows : d.cells[i][r].k = "num"}) > 3 * d.nrows
             /\ Qualifies(d.cells[i])}

\* more than 50% of the entries of an accepted quantity column are negative
\* (a missing entry is an entry that is not negative)
NegativeDefect(d) == \E i \in AcceptedQuantityColumns(d) : MostlyNegative(d.cells[i])

\* a parsed date of a time-pattern column lies outside the years 1900..2100
DateDefect(d) ==
    \E i \in 1..Len(d.columns) :
        /\ Lower(d.columns[i]) \in TIME_PATTERNS
        /\ \E r \in 1..d.nrows :
              /\ IsDatetime(d.cells[i][r])
              /\ DatetimeYear(d.cells[i][r]) \notin 1900..2100

\* volume, product identifiers, quantity meaning and time context pass
FirstFourPass(d) ==
    /\ d.nrows >= 2
    /\ check_product_identifiers(d).passed
    /\ AcceptedQuantityColumns(d) # {}
    /\ check_time_context(d).passed

\* C23: check_sufficiency returns insufficient whenever more than 50% of
\* the entries of an accepted quantity column are negative, or a parsed date
\* of a time-pattern column falls outside the years 1900 to 2100; a table
\* that passed the first four checks is sufficient if it has neither defect
\* and is otherwise rejected with the reason of its defect, the negative
\* quantities first.
C23_LogicalConsistency ==
    stage2_result # NoResult2 /\ df.nrows >= 1 =>
        /\ NegativeDefect(df) \/ DateDefect(df) => stage2_result.status = "insufficient"
        /\ FirstFourPass(df) =>
              stage2_result = IF NegativeDefect(df) THEN Insufficient(MsgNegative)
                              ELSE IF DateDefect(df) THEN Insufficient(MsgDateRange)
                              ELSE Sufficient

\* exactly half of the quantities are negative and the table is sufficient
C23_Witness ==
    /\ stage2_result = Sufficient
    /\ FirstFourPass(df)
    /\ \E i \in AcceptedQuantityColumns(df) :
          2 * Cardinality({r \in 1..df.nrows : df.cells[i][r].k = "num" /\ df.cells[i][r].n < 0}) = df.nrows

\* the product snapshot table has been staged
ProductsStaged == products_df # <<>>

ProductColumn == df.cells[ColumnIndex(df, role_mapping["product_id"])]

\* the distinct product identifiers observed in the table
ProductIdentifiers == {ProductColumn[r] : r \in 1..df.nrows} \ {Null}

\* the numbers of the column bound to one of the roles (the first bound
\* role of the list) in the rows of the product, in row order
NumbersOf(roles, pid) ==
    LET bound == {i \in 1..Len(roles) : roles[i] \in DOMAIN role_mapping}
    IN  IF bound = {} THEN <<>>
        ELSE LET first == CHOOSE i \in bound : \A j \in bound : i <= j
                 col == df.cells[ColumnIndex(df, role_mapping[roles[first]])]
                 rows == SelectIdx([r \in 1..df.nrows |->
                             ProductColumn[r] = pid /\ col[r].k = "num"], 1, df.nrows)
             IN  [j \in 1..Len(rows) |-> col[rows[j]].n]

\* the stock column is the column bound to current_stock, or else the one
\* bound to quantity
StockNumbers(pid) == NumbersOf(<<"current_stock", "quantity">>, pid)

ExpiryNumbers(pid) == NumbersOf(<<"expiry">>, pid)

\* the record of a product identifier carries the last number of its stock
\* column and the first number of its expiry column, or the defaults
SnapshotValues(rec) ==
    LET st == StockNumbers(rec.product_id)
        ex == ExpiryNumbers(rec.product_id)
    IN  /\ rec.current_stock = IF st = <<>> THEN 100 ELSE st[Len(st)]
        /\ rec.days_to_expiry = IF ex = <<>> THEN 30 ELSE ex[1]

\* C24: the product snapshot table has exactly one record per distinct
\* product identifier observed in the source table; current_stock is the
\* last numeric value of the stock column among the rows of the identifier
\* and days_to_expiry the first numeric value of the expiry column, with the
\* defaults 100 and 30 when the column is unmapped or holds no number for
\* the product.
C24_ProductSnapshot ==
    ProductsStaged =>
        /\ Len(products_df) = Cardinality(ProductIdentifiers)
        /\ \A pid \in ProductIdentifiers :
              \E j \in 1..Len(products_df) : products_df[j].product_id = pid
        /\ \A j \in 1..Len(products_df) :
              products_df[j].product_id \in ProductIdentifiers => SnapshotValues(products_df[j])

\* a product of two rows with different stock and expiry numbers got the
\* last stock and the first expiry
C24_Witness ==
    /\ ProductsStaged
    /\ \E j \in 1..Len(products_df) :
          LET st == StockNumbers(products_df[j].product_id)
              ex == ExpiryNumbers(products_df[j].product_id)
          IN  /\ Len(st) = 2 /\ st[1] # st[2]
              /\ Len(ex) = 2 /\ ex[1] # ex[2]
              /\ products_df[j].current_stock = st[2]
              /\ products_df[j].days_to_expiry = ex[1]

\* analyze_expiry_risk has returned for the product of engine
RiskAnalysed == pc \in {"risk_done", "decide", "decided"} /\ Called("analyze_expiry_risk")

\* C25: calculate_risk_level returns HIGH if stockout is undefined (velocity
\* <= 0) or days_to_expiry is strictly less than days_to_stockout, MEDIUM if
\* the buffer days_to_expiry - days_to_stockout is at least 0 and under 2
\* days, and LOW otherwise.
C25_RiskLevel ==
    RiskAnalysed =>
        LET d == engine.days_to_stockout
            e == engine.risk_data.days_to_expiry
        IN  /\ engine.daily_velocity.num <= 0 <=> ~d.finite
            /\ engine.risk_data.risk_level =
                  IF ~d.finite \/ BufferUnder(e, d, 0) THEN "HIGH"
                  ELSE IF BufferUnder(e, d, 2) THEN "MEDIUM"
                  ELSE "LOW"

\* a buffer of exactly 2 days is LOW
C25_Witness ==
    /\ RiskAnalysed
    /\ engine.days_to_stockout.finite
    /\ engine.risk_data.current_stock > 0
    /\ (engine.risk_data.days_to_expiry - 2) * engine.days_to_stockout.den
           = engine.days_to_stockout.num
    /\ engine.risk_data.risk_level = "LOW"

\* stockout would occur after expiry: days_to_stockout > days_to_expiry
StockoutAfterExpiry ==
    \/ ~engine.days_to_stockout.finite
    \/ BufferUnder(engine.risk_data.days_to_expiry, engine.days_to_stockout, 0)

\* round(velocity * days_to_expiry)
UnitsSellable ==
    PyRound(engine.daily_velocity.num * engine.risk_data.days_to_expiry,
            engine.daily_velocity.den,
            Dyadic(engine.daily_velocity.num, engine.daily_velocity.den), loop.ties)

\* C26: excess_units returned by analyze_expiry_risk is never negative,
\* equals max(0, current_stock - round(velocity * days_to_expiry)) when
\* stockout would occur after expiry, and is 0 otherwise; so excess_units > 0
\* implies risk_level = HIGH.
C26_ExcessUnits ==
    RiskAnalysed =>
        /\ engine.risk_data.excess_units >= 0
        /\ engine.risk_data.excess_units =
              IF StockoutAfterExpiry
              THEN Max(0, engine.risk_data.current_stock - UnitsSellable)
              ELSE 0
        /\ engine.risk_data.excess_units > 0 => engine.risk_data.risk_level = "HIGH"

\* part of the stock can be sold before expiry, the rest is in excess
C26_Witness ==
    /\ RiskAnalysed
    /\ engine.days_to_stockout.finite
    /\ StockoutAfterExpiry
    /\ UnitsSellable > 0
    /\ engine.risk_data.excess_units > 0
    /\ engine.risk_data.excess_units = engine.risk_data.current_stock - UnitsSellable

\* forecast_demand has returned for the product of engine
Forecast == pc # "engine" /\ Called("forecast_demand")

\* the quantities of the product's sales records in date order
History ==
    LET own == SelectIdx([j \in 1..Len(sales_df) |->
                   sales_df[j].product_id = engine.product_id], 1, Len(sales_df))
        rank(j) == Cardinality({i \in 1..Len(own) :
                       sales_df[own[i]].date < sales_df[own[j]].date}) + 1
    IN  [r \in 1..Len(own) |->
            sales_df[own[CHOOSE j \in 1..Len(own) : rank(j) = r]].quantity_sold]

\* round(daily average); the average of integers holds a half exactly
RoundedAverage ==
    LET h == History
    IN  IF h = <<>> THEN 0
        ELSE PyRound(SumSeq(h), Len(h), TRUE, loop.ties)

\* fewer than 4 sales records, or a first-half mean of 0
NoTrend ==
    LET h == History
    IN  \/ Len(h) < 4
        \/ SumSeq(SubSeq(h, 1, Len(h) \div 2)) = 0

ForecastShape ==
    /\ Len(engine.demand_data.daily_forecast) = 7
    /\ \A day \in 1..7 : engine.demand_data.daily_forecast[day] >= 0
    /\ engine.demand_data.total_demand = SumSeq(engine.demand_data.daily_forecast)

AllFound ==
    \A j \in 1..Len(FirstProducts) :
        ProductFound(products_df, FirstProducts[j].product_id)

\* C28: once analytics readiness has passed, every one of the first 10
\* product identifiers written to the product snapshot table is found again
\* by the decision engine's snapshot lookup on the table read back, whether
\* the identifiers are textual or numeric, so the result is ready with
\* analyzed_products = min(10, total_products).
C28_LookupRoundTrip ==
    LoopReturned =>
        /\ AllFound
        /\ stage3_result.status = "ready"
        /\ stage3_result.analyzed_products =
              (IF stage3_result.total_products < MaxProducts
               THEN stage3_result.total_products ELSE MaxProducts)

\* a table of textual identifiers: all of the first 10 were found again
C28_Witness ==
    /\ LoopReturned
    /\ Len(FirstProducts) >= 2
    /\ AllFound
    /\ stage3_result.status = "ready"
    /\ stage3_result.analyzed_products = Len(FirstProducts)
    /\ stage3_result.total_products = Len(products_df)

\* the kind of a rejection reason: the three "unable to read" sentences
\* (upload, Excel path, PDF path) are one kind, every other sentence its own
ReasonKind(reason) ==
    IF reason \in {MsgUnreadable, MsgUnreadableExcel, MsgUnreadablePdf}
    THEN "unreadable"
    ELSE reason

\* both entry points have returned for one existing file
BothValidated ==
    /\ stage1_result # NoResult
    /\ path_result # NoResult
    /\ uploaded_file.exists

\* C29: for the same existing single-sheet file and file name, validate_file
\* and validate_uploaded_file return the same status; on acceptance the same
\* file_type, confidence and explanation; on rejection the same kind of
\* reason.
C29_EntryPointsAgree ==
    BothValidated =>
        /\ stage1_result.status = path_result.status
        /\ stage1_result.status = "valid" =>
              /\ stage1_result.file_type = path_result.file_type
              /\ stage1_result.confidence = path_result.confidence
              /\ stage1_result.explanation = path_result.explanation
        /\ stage1_result.status = "invalid" =>
              ReasonKind(stage1_result.reason) = ReasonKind(path_result.reason)

\* an unreadable workbook: the two entry points word the reason differently
\* and it is of the same kind
C29_Witness ==
    /\ BothValidated
    /\ stage1_result.status = "invalid"
    /\ stage1_result.reason # path_result.reason
    /\ ReasonKind(stage1_result.reason) = ReasonKind(path_result.reason)

\* the product's record in the snapshot table
Snapshot ==
    products_df[CHOOSE j \in 1..Len(products_df) :
                    products_df[j].product_id = engine.product_id]

\* the product has a snapshot record with stock on hand and an expiry not in
\* the past, and the sales table holds no record of it
StockedWithoutSales ==
    /\ History = <<>>
    /\ Snapshot.current_stock > 0
    /\ Snapshot.days_to_expiry >= 0

\* C30: a product with a snapshot record of current_stock > 0 and
\* days_to_expiry >= 0 and no sales record at all receives DISCOUNT with
\* quantity equal to its whole current_stock, whatever the supplier terms;
\* it is never WAIT or REORDER.
C30_NoSalesDiscount ==
    (Decided /\ StockedWithoutSales) =>
        /\ engine.decision_data.decision = "DISCOUNT"
        /\ engine.decision_data.quantity = Snapshot.current_stock
        /\ engine.risk_data.risk_level = "HIGH"
        /\ ~engine.days_to_stockout.finite

\* such a product decided under supplier terms other than the defaults and
\* expiring today
C30_Witness ==
    /\ Decided
    /\ StockedWithoutSales
    /\ Snapshot.days_to_expiry = 0
    /\ engine.supplier_info.lead_time # DefaultLeadTime
    /\ engine.decision_data.decision = "DISCOUNT"
    /\ engine.decision_data.quantity = MaxStock
=============================================================================
